---- MODULE Spec2Model ----
(***************************************************************************)
(* Model of pi-sd-offloader: the transfer engine (core/transfer_manager.py), *)
(* the camera detection engine and the file list (core/camera_detector.py),  *)
(* and the conflict report, the confirmation gate and the progress monitor   *)
(* of process_sd_card (main.py, web/app.py).                                 *)
(***************************************************************************)
EXTENDS Integers, Sequences, FiniteSets, TLC

VARIABLES
    config,           \* TransferManager.config: transfer_mode, fallback_to_local, preserve_timestamps
    file_list,        \* argument of transfer_files: sequence of (source, relative_dest)
    srcfs,            \* files of the card as transfer_files finds them, by source path
    nasfs,            \* files under nas_storage_path/device/date, by relative path
    localfs,          \* files under local_storage_path/device/date, by relative path
    stats,            \* TransferManager.stats
    pc,               \* position of transfer_files
    mode,             \* transfer mode selected by _get_transfer_mode ("none" before)
    idx,              \* number of entries of the running loop already processed
    local_transfers,  \* _transfer_local_first's list of staged relative paths
    results,          \* every TransferResult produced so far, in order
    probes,           \* every outcome of the NAS reachability probe so far, in order
    deleted           \* the source paths _cleanup_sd_card has removed from the card

tvars == <<config, file_list, srcfs, nasfs, localfs, stats, pc, mode, idx, local_transfers, results, probes,
           deleted>>

VARIABLES
    cameras,            \* CameraDetector.cameras: the profiles, in configuration order
    volume,             \* the mounted card: whether sd_card_path exists and which folders it holds
    dpc,                \* position of detect_camera
    didx,               \* number of profiles detect_camera has gone through
    tested,             \* every result of _test_camera_match so far, in order
    detection_results,  \* detect_camera's list of results with a positive score
    detected            \* what detect_camera returned

dvars == <<cameras, volume, dpc, didx, tested, detection_results, detected>>

VARIABLES
    vsource,   \* the file at verify_transfer's source_file
    vdest,     \* the file at verify_transfer's dest_file
    vpc,       \* position of verify_transfer
    vresult    \* what verify_transfer returned

cvars == <<vsource, vdest, vpc, vresult>>

VARIABLES
    dup_list,    \* check_duplicates' file_list
    dup_fs,      \* the files at the paths of dup_list
    dup_pc,      \* position of check_duplicates
    dup_result   \* the dict check_duplicates returned: digest -> list of paths

uvars == <<dup_list, dup_fs, dup_pc, dup_result>>

VARIABLES
    require_confirmation,   \* settings.user_interaction.require_confirmation
    timeout_seconds,        \* settings.user_interaction.timeout_seconds
    status,                 \* current_state['status'] of the web interface
    pending_confirmation,   \* current_state['pending_confirmation']
    kpc,                    \* position of process_sd_card
    elapsed,                \* seconds since wait_for_confirmation took start_time
    confirmation,           \* what wait_for_confirmation returned
    submitted,              \* the actions confirm_transfer has accepted so far
    copied,                 \* whether transfer_files has been called
    cleaned,                \* whether _cleanup_sd_card has been called
    requests,               \* number of calls of request_confirmation so far
    accepted,               \* every decision confirm_transfer stored, in order
    pending_id,             \* the place in `accepted` of the pending decision (0: none)
    returns,                \* what each wait_for_confirmation returned (id 0: the default)
    answer                  \* the last answer of confirm_transfer

kvars == <<require_confirmation, timeout_seconds, status, pending_confirmation, kpc, elapsed,
           confirmation, submitted, copied, cleaned, requests, accepted, pending_id, returns, answer>>

VARIABLES
    exif_rules,     \* _test_exif_data's exif_rules
    exif_samples,   \* what exiftool gives for each file of _find_sample_files
    epc,            \* position of _test_exif_data
    exif_returned   \* what _test_exif_data returned

evars == <<exif_rules, exif_samples, epc, exif_returned>>

VARIABLES
    ptotal,     \* len(file_list) of the transfer_files run that is polled
    wpc,        \* position of that transfer_files run
    wdone,      \* number of files the run has gone through in its current loop
    pstats,     \* TransferManager.stats, as the two threads see it
    rpc,        \* position of get_progress in the monitoring thread
    snapshot    \* the dict get_progress is building

gvars == <<ptotal, wpc, wdone, pstats, rpc, snapshot>>

VARIABLES
    sources_config,              \* camera_config['file_sources']: file type -> list of source rules
    sd_files,                    \* the paths of the files `find` can see
    preserve_folder_structure,   \* settings.preserve_folder_structure
    fpc,                         \* position in _get_file_sources / prepare_file_list
    ftype,                       \* number of file types _get_file_sources has gone through
    file_sources,                \* the dict _get_file_sources builds, in insertion order
    prepared                     \* the list prepare_file_list returned

fvars == <<sources_config, sd_files, preserve_folder_structure, fpc, ftype, file_sources, prepared>>

VARIABLES
    pattern_rules,     \* _test_file_patterns' pattern_rules
    pattern_finds,     \* what the search of each rule gives
    ppc,               \* position of _test_file_patterns
    pattern_returned   \* what _test_file_patterns returned

pvars == <<pattern_rules, pattern_finds, ppc, pattern_returned>>

VARIABLES
    settings,       \* CameraDetector.settings: the storage roots of two sections, the date format
    dest_files,     \* the files under the storage roots before the transfer
    checked_list,   \* the relative_dest of each entry of the prepared file list
    conflicts,      \* what check_existing_files returned
    xpc,            \* position of process_sd_card, from step 3 on
    decision,       \* whether a confirmation was required, and the answer
    import_folder,  \* the import_date handed to transfer_files
    copy_targets    \* the destination paths transfer_files copies to

xvars == <<settings, dest_files, checked_list, conflicts, xpc, decision, import_folder, copy_targets>>

\* process_sd_card and the status it reports
VARIABLES
    run_config,        \* the settings process_sd_card and transfer_files read
    opc,               \* position of process_sd_card
    reported,          \* the statuses update_status and request_confirmation set, in order
    error_message,     \* the error_message held by the state of the web interface
    returned,          \* what process_sd_card returned
    card_detection,    \* what detect_camera returned
    listed_files,      \* length of the list prepare_file_list returned
    run_stats,         \* the stats of the TransferManager
    run_mode,          \* what _get_transfer_mode gave
    copies             \* entries the copy loop has processed

ovars == <<run_config, opc, reported, error_message, returned, card_detection, listed_files,
           run_stats, run_mode, copies>>

vars == <<tvars, dvars, cvars, uvars, kvars, evars, gvars, fvars, pvars, xvars, ovars>>

\* What an operation of one component leaves alone.
NotTransfer == <<dvars, cvars, uvars, kvars, evars, gvars, fvars, pvars, xvars, ovars>>

NotDetect == <<tvars, cvars, uvars, kvars, evars, gvars, fvars, pvars, xvars, ovars>>

NotVerify == <<tvars, dvars, uvars, kvars, evars, gvars, fvars, pvars, xvars, ovars>>

NotDuplicates == <<tvars, dvars, cvars, kvars, evars, gvars, fvars, pvars, xvars, ovars>>

NotConfirm == <<tvars, dvars, cvars, uvars, evars, gvars, fvars, pvars, xvars, ovars>>

NotExif == <<tvars, dvars, cvars, uvars, kvars, gvars, fvars, pvars, xvars, ovars>>

NotProgress == <<tvars, dvars, cvars, uvars, kvars, evars, fvars, pvars, xvars, ovars>>

NotFileList == <<tvars, dvars, cvars, uvars, kvars, evars, gvars, pvars, xvars, ovars>>

NotPatterns == <<tvars, dvars, cvars, uvars, kvars, evars, gvars, fvars, xvars, ovars>>

NotConflicts == <<tvars, dvars, cvars, uvars, kvars, evars, gvars, fvars, pvars, ovars>>

NotProcess == <<tvars, dvars, cvars, uvars, kvars, evars, gvars, fvars, pvars, xvars>>

-----------------------------------------------------------------------------
(* Bounds and domains *)

MaxFiles == 2

Bytes == {0, 1}

Sources == {"s1", "s2"}

RelPaths == {"a", "b"}

RECURSIVE SeqsUpTo(_, _)
SeqsUpTo(S, n) ==
    IF n = 0 THEN {<<>>}
    ELSE LET shorter == SeqsUpTo(S, n - 1)
         IN  shorter \cup {Append(q, x) : q \in {r \in shorter : Len(r) = n - 1}, x \in S}

\* What a file of the card can hold: nothing, and two contents of the same size.
Contents == {<<>>, <<0>>, <<1>>}

-----------------------------------------------------------------------------
(* Files *)

Absent == [kind |-> "missing", data |-> <<>>]

RegularFile(d) == [kind |-> "ok", data |-> d]

\* A file of the card: readable, present but unreadable, or not there at all.
SourceFiles ==
    {RegularFile(d) : d \in Contents}
        \cup {[kind |-> "unreadable", data |-> <<0>>]}
        \cup {Absent}

\* os.path.getsize: the size, or OSError for a path that is not there.
GetSize(f) == IF f.kind = "missing" THEN [ok |-> FALSE, size |-> 0] ELSE [ok |-> TRUE, size |-> Len(f.data)]

-----------------------------------------------------------------------------
(* ChecksumManager *)

\* The digest of a byte string, folded over the bytes as the hash is updated.
RECURSIVE HashUpdate(_, _)
HashUpdate(h, d) == IF d = <<>> THEN h ELSE HashUpdate(h * 3 + Head(d) + 1, Tail(d))

Digest_FirstChunk(d) == IF d = <<>> THEN 0 ELSE HashUpdate(0, <<Head(d)>>)

\* hexdigest of the hash fed with every chunk of the file.
Digest(d) == HashUpdate(0, d)

\* calculate_checksum: open() raises for a missing or unreadable file.
CalculateChecksum(f) ==
    IF f.kind = "ok" THEN [ok |-> TRUE, sum |-> Digest(f.data)] ELSE [ok |-> FALSE, sum |-> 0]

VerifyTransfer_SizeOnly(source, dest) ==
    IF dest.kind = "missing" THEN FALSE
    ELSE LET s == CalculateChecksum(source)
             d == CalculateChecksum(dest)
         IN  IF ~s.ok \/ ~d.ok THEN FALSE ELSE Len(source.data) = Len(dest.data)

\* verify_transfer: False when dest is absent or a read fails, else digest equality.
VerifyTransfer(source, dest) ==
    IF dest.kind = "missing" THEN FALSE
    ELSE LET s == CalculateChecksum(source)
             d == CalculateChecksum(dest)
         IN  IF ~s.ok \/ ~d.ok THEN FALSE ELSE s.sum = d.sum

-----------------------------------------------------------------------------
(* TransferManager._copy_file_with_verification *)

\* What can go wrong with one copy: nothing; makedirs/copy2 raising before any byte
\* is written; copy2 raising after a partial write; the written bytes being corrupted;
\* os.utime raising.
CopyFaults == {"none", "copy_error", "partial_write", "corrupt", "utime_error"}

Corrupt(d) == IF d = <<>> THEN <<0>> ELSE [d EXCEPT ![1] = 1 - d[1]]

Prefix(d) == IF d = <<>> THEN <<>> ELSE SubSeq(d, 1, Len(d) - 1)

ErrVerify == "Checksum verification failed"

ErrException == "exception"

CopyResult(ok, err, dest, verify) == [success |-> ok, error |-> err, dest |-> dest, verify |-> verify]

CopyFileWithVerification_KeepCorrupt(source, dest, fault, preserve) ==
    IF ~CalculateChecksum(source).ok \/ fault = "copy_error"
    THEN CopyResult(FALSE, ErrException, dest, "not_reached")
    ELSE IF fault = "partial_write"
    THEN CopyResult(FALSE, ErrException, RegularFile(Prefix(source.data)), "not_reached")
    ELSE LET written == RegularFile(IF fault = "corrupt" THEN Corrupt(source.data) ELSE source.data)
         IN  IF VerifyTransfer(source, written)
             THEN CopyResult(TRUE, IF preserve /\ fault = "utime_error" THEN ErrException ELSE "",
                             written, "match")
             ELSE CopyResult(FALSE, ErrVerify, written, "mismatch")

\* The result of one copy and the destination file it leaves.
CopyFileWithVerification(source, dest, fault, preserve) ==
    IF ~CalculateChecksum(source).ok \/ fault = "copy_error"
    THEN CopyResult(FALSE, ErrException, dest, "not_reached")
    ELSE IF fault = "partial_write"
    THEN CopyResult(FALSE, ErrException, RegularFile(Prefix(source.data)), "not_reached")
    ELSE LET written == RegularFile(IF fault = "corrupt" THEN Corrupt(source.data) ELSE source.data)
         IN  IF VerifyTransfer(source, written)
             THEN CopyResult(TRUE, IF preserve /\ fault = "utime_error" THEN ErrException ELSE "",
                             written, "match")
             ELSE CopyResult(FALSE, ErrVerify, Absent, "mismatch")

-----------------------------------------------------------------------------
(* NetworkManager *)

\* Outcomes of the NAS reachability probe (subprocess.run of the ping command):
\* return code 0, a non-zero return code or a timeout, and the command failing to
\* start, which raises an OSError that test_nas_connectivity does not catch.
ProbeOutcomes == {"up", "down", "error"}

\* test_nas_connectivity: [raised, value].
TestNasConnectivity(probe) ==
    IF probe = "error" THEN [raised |-> TRUE, value |-> FALSE]
    ELSE [raised |-> FALSE, value |-> (probe = "up")]

\* Outcomes of the VPN check (subprocess.run of a shell command line, without a
\* timeout): return code 0, a non-zero return code (also what the shell gives for a
\* command it cannot start), and the command never returning.
VpnOutcomes == {"active", "inactive", "no_return"}

\* check_vpn_status: [returned, value].
CheckVpnStatus(vpn) == [returned |-> vpn # "no_return", value |-> (vpn = "active")]

\* get_connection_status: the NAS probe, then the VPN check.
GetConnectionStatus(probe, vpn) ==
    LET nas == TestNasConnectivity(probe)
        tunnel == CheckVpnStatus(vpn)
    IN  IF nas.raised THEN [outcome |-> "raised", nas_available |-> FALSE, vpn_active |-> FALSE]
        ELSE IF ~tunnel.returned THEN [outcome |-> "blocked", nas_available |-> nas.value, vpn_active |-> FALSE]
        ELSE [outcome |-> "returned", nas_available |-> nas.value, vpn_active |-> tunnel.value]

-----------------------------------------------------------------------------
(* TransferManager *)

TransferModes == {"auto", "direct_nas", "local_first"}

Configs == [transfer_mode : TransferModes, fallback_to_local : BOOLEAN, preserve_timestamps : BOOLEAN]

FileEntries == [source : Sources, rel : RelPaths]

NewStats ==
    [total_files |-> 0, successful_transfers |-> 0, failed_transfers |-> 0,
     total_size |-> 0, transferred_size |-> 0]

GetTransferMode_ProbeWhenPinned(cfg, probe, vpn) ==
    LET network_status == GetConnectionStatus(probe, vpn)
    IN  IF network_status.outcome = "raised" THEN "raise_probe"
        ELSE IF network_status.outcome = "blocked" THEN "blocked_vpn"
        ELSE IF network_status.nas_available THEN "direct_nas"
        ELSE IF cfg.fallback_to_local THEN "local_first"
        ELSE "raise_conflict"

GetTransferMode_NoConflict(cfg, probe, vpn) ==
    IF cfg.transfer_mode = "auto"
    THEN LET network_status == GetConnectionStatus(probe, vpn)
         IN  IF network_status.outcome = "raised" THEN "raise_probe"
             ELSE IF network_status.outcome = "blocked" THEN "blocked_vpn"
             ELSE IF network_status.nas_available THEN "direct_nas"
             ELSE "local_first"
    ELSE cfg.transfer_mode

\* _get_transfer_mode: the mode, the exception that leaves transfer_files, or the
\* wait for a VPN check that does not return.
GetTransferMode(cfg, probe, vpn) ==
    IF cfg.transfer_mode = "auto"
    THEN LET network_status == GetConnectionStatus(probe, vpn)
         IN  IF network_status.outcome = "raised" THEN "raise_probe"
             ELSE IF network_status.outcome = "blocked" THEN "blocked_vpn"
             ELSE IF network_status.nas_available THEN "direct_nas"
             ELSE IF cfg.fallback_to_local THEN "local_first"
             ELSE "raise_conflict"
    ELSE cfg.transfer_mode

\* The loop of transfer_files that sums os.path.getsize, skipping OSError.
RECURSIVE TotalSize(_, _)
TotalSize(fl, fs) ==
    IF fl = <<>> THEN 0
    ELSE LET g == GetSize(fs[Head(fl).source])
         IN  (IF g.ok THEN g.size ELSE 0) + TotalSize(Tail(fl), fs)

UpdateStats_CountFailedBytes(st, result, source) ==
    LET g == GetSize(source)
    IN  IF result.success
        THEN [st EXCEPT !.successful_transfers = @ + 1,
                        !.transferred_size = @ + (IF g.ok THEN g.size ELSE 0)]
        ELSE [st EXCEPT !.failed_transfers = @ + 1,
                        !.transferred_size = @ + (IF g.ok THEN g.size ELSE 0)]

UpdateStats_DropFailed(st, result, source) ==
    IF result.success
    THEN LET g == GetSize(source)
         IN  [st EXCEPT !.successful_transfers = @ + 1,
                        !.transferred_size = @ + (IF g.ok THEN g.size ELSE 0)]
    ELSE st

\* _update_stats
UpdateStats(st, result, source) ==
    IF result.success
    THEN LET g == GetSize(source)
         IN  [st EXCEPT !.successful_transfers = @ + 1,
                        !.transferred_size = @ + (IF g.ok THEN g.size ELSE 0)]
    ELSE [st EXCEPT !.failed_transfers = @ + 1]

\* One entry of the log of TransferResults: which copy it was and what it left.
LogEntry(phase, i, root, rel, src, r) ==
    [phase |-> phase, index |-> i, root |-> root, rel |-> rel, src |-> src,
     success |-> r.success, error |-> r.error, verify |-> r.verify, dest |-> r.dest]

\* transfer_files up to the dispatch on the transfer mode.
TransferFilesStart ==
    /\ pc = "idle"
    /\ \E probe \in ProbeOutcomes, vpn \in VpnOutcomes :
         LET m == GetTransferMode(config, probe, vpn)
         IN  /\ probes' = IF config.transfer_mode = "auto" THEN <<probe>> ELSE <<>>
             /\ stats' = [NewStats EXCEPT !.total_files = Len(file_list),
                                          !.total_size = TotalSize(file_list, srcfs)]
             /\ IF m \in {"raise_probe", "raise_conflict", "blocked_vpn"}
                THEN /\ pc' = m
                     /\ mode' = "none"
                ELSE /\ pc' = "copying"
                     /\ mode' = m
    /\ idx' = 0
    /\ local_transfers' = <<>>
    /\ results' = <<>>
    /\ UNCHANGED <<config, file_list, srcfs, nasfs, localfs>>
    /\ UNCHANGED deleted
    /\ UNCHANGED NotTransfer

\* One iteration of the loop of _transfer_direct_to_nas.
TransferDirectNext ==
    /\ pc = "copying"
    /\ mode = "direct_nas"
    /\ idx < Len(file_list)
    /\ \E fault \in CopyFaults :
         LET e == file_list[idx + 1]
             src == srcfs[e.source]
             r == CopyFileWithVerification(src, nasfs[e.rel], fault, config.preserve_timestamps)
         IN  /\ nasfs' = [nasfs EXCEPT ![e.rel] = r.dest]
             /\ stats' = UpdateStats(stats, r, src)
             /\ results' = Append(results, LogEntry("transfer", idx + 1, "nas", e.rel, src, r))
    /\ idx' = idx + 1
    /\ UNCHANGED <<config, file_list, srcfs, localfs, pc, mode, local_transfers, probes>>
    /\ UNCHANGED deleted
    /\ UNCHANGED NotTransfer

\* One iteration of the first loop of _transfer_local_first.
TransferLocalNext ==
    /\ pc = "copying"
    /\ mode # "direct_nas"
    /\ idx < Len(file_list)
    /\ \E fault \in CopyFaults :
         LET e == file_list[idx + 1]
             src == srcfs[e.source]
             r == CopyFileWithVerification(src, localfs[e.rel], fault, config.preserve_timestamps)
         IN  /\ localfs' = [localfs EXCEPT ![e.rel] = r.dest]
             /\ stats' = UpdateStats(stats, r, src)
             /\ results' = Append(results, LogEntry("transfer", idx + 1, "local", e.rel, src, r))
             /\ local_transfers' = IF r.success THEN Append(local_transfers, e.rel) ELSE local_transfers
    /\ idx' = idx + 1
    /\ UNCHANGED <<config, file_list, srcfs, nasfs, pc, mode, probes>>
    /\ UNCHANGED deleted
    /\ UNCHANGED NotTransfer

\* The end of _transfer_direct_to_nas and of transfer_files.
TransferDirectDone ==
    /\ pc = "copying"
    /\ mode = "direct_nas"
    /\ idx = Len(file_list)
    /\ pc' = "done"
    /\ UNCHANGED <<config, file_list, srcfs, nasfs, localfs, stats, mode, idx, local_transfers, results, probes>>
    /\ UNCHANGED deleted
    /\ UNCHANGED NotTransfer

\* _sync_to_nas_async up to its loop: the reachability probe.
SyncToNasStart ==
    /\ pc = "copying"
    /\ mode # "direct_nas"
    /\ idx = Len(file_list)
    /\ \E probe \in ProbeOutcomes :
         LET nas == TestNasConnectivity(probe)
         IN  /\ probes' = Append(probes, probe)
             /\ pc' = IF nas.raised THEN "raise_probe"
                      ELSE IF nas.value THEN "syncing"
                      ELSE "done"
    /\ idx' = 0
    /\ UNCHANGED <<config, file_list, srcfs, nasfs, localfs, stats, mode, local_transfers, results>>
    /\ UNCHANGED deleted
    /\ UNCHANGED NotTransfer

\* The failures of a push copy: the staged file is the source.
SyncFaults == {"none", "copy_error", "corrupt"}

\* One iteration of the loop of _sync_to_nas_async.
SyncToNasNext ==
    /\ pc = "syncing"
    /\ idx < Len(local_transfers)
    /\ \E fault \in SyncFaults :
         LET rel == local_transfers[idx + 1]
             src == localfs[rel]
             r == CopyFileWithVerification(src, nasfs[rel], fault, TRUE)
         IN  /\ nasfs' = [nasfs EXCEPT ![rel] = r.dest]
             /\ results' = Append(results, LogEntry("sync", idx + 1, "nas", rel, src, r))
    /\ idx' = idx + 1
    /\ UNCHANGED <<config, file_list, srcfs, localfs, stats, pc, mode, local_transfers, probes>>
    /\ UNCHANGED deleted
    /\ UNCHANGED NotTransfer

\* The end of _sync_to_nas_async, of _transfer_local_first and of transfer_files.
SyncToNasDone ==
    /\ pc = "syncing"
    /\ idx = Len(local_transfers)
    /\ pc' = "done"
    /\ UNCHANGED <<config, file_list, srcfs, nasfs, localfs, stats, mode, idx, local_transfers, results, probes>>
    /\ UNCHANGED deleted
    /\ UNCHANGED NotTransfer

\* The source paths a file list names.
SourcesOf(fl) == {fl[i].source : i \in 1..Len(fl)}

\* Step 6 of process_sd_card: whether the card is cleaned up.
CleanupAllowed(st, delete_after_transfer) ==
    st.successful_transfers > 0 /\ st.failed_transfers = 0 /\ delete_after_transfer

\* _cleanup_sd_card: every path of the list that exists is removed.
CleanupSdCard(paths, fs) == {p \in paths : fs[p].kind # "missing"}

\* Steps 6 and 7 of process_sd_card, on the stats transfer_files returned: the
\* cleanup of the card when it is configured and no file failed, and the report.
CleanupAndReport ==
    /\ pc = "done"
    /\ \E delete_after_transfer \in BOOLEAN :
         deleted' = IF CleanupAllowed(stats, delete_after_transfer)
                    THEN CleanupSdCard(SourcesOf(file_list), srcfs)
                    ELSE {}
    /\ pc' = "reported"
    /\ UNCHANGED <<config, file_list, srcfs, nasfs, localfs, stats, mode, idx, local_transfers, results, probes>>
    /\ UNCHANGED NotTransfer

\* A TransferManager as constructed, a card and the file list handed to transfer_files.
TransferInit ==
    /\ config \in Configs
    /\ file_list \in SeqsUpTo(FileEntries, MaxFiles)
    /\ srcfs \in [SourcesOf(file_list) -> SourceFiles]
    /\ nasfs = [p \in RelPaths |-> Absent]
    /\ localfs = [p \in RelPaths |-> Absent]
    /\ stats = NewStats
    /\ pc = "idle"
    /\ mode = "none"
    /\ idx = 0
    /\ local_transfers = <<>>
    /\ results = <<>>
    /\ probes = <<>>
    /\ deleted = {}

-----------------------------------------------------------------------------
(* The push to the NAS of _transfer_local_first, from the state its first loop
   leaves when every file of the list was staged and verified *)

MaxStaged == 3

\* What the first loop of _transfer_local_first leaves under the local root when
\* every copy succeeds: at each relative path, the last file copied there.
StagedLocalFs(fl, fs) ==
    [p \in RelPaths |->
        LET at == {i \in 1..Len(fl) : fl[i].rel = p}
        IN  IF at = {} THEN Absent
            ELSE fs[fl[CHOOSE i \in at : \A j \in at : j <= i].source]]

\* The TransferResults of a first loop in which every copy succeeds.
StagedResults(fl, fs) ==
    [i \in 1..Len(fl) |->
        LogEntry("transfer", i, "local", fl[i].rel, fs[fl[i].source],
                 CopyFileWithVerification(fs[fl[i].source], Absent, "none", TRUE))]

\* transfer_files in mode 'local_first' at the call of _sync_to_nas_async, every
\* file of a list of readable files having been staged.
PushInit ==
    /\ config = [transfer_mode |-> "local_first", fallback_to_local |-> TRUE, preserve_timestamps |-> TRUE]
    /\ file_list \in SeqsUpTo(FileEntries, MaxStaged) \ {<<>>}
    /\ srcfs \in [SourcesOf(file_list) -> {RegularFile(d) : d \in Contents}]
    /\ nasfs = [p \in RelPaths |-> Absent]
    /\ localfs = StagedLocalFs(file_list, srcfs)
    /\ stats = [NewStats EXCEPT !.total_files = Len(file_list),
                                !.successful_transfers = Len(file_list),
                                !.total_size = TotalSize(file_list, srcfs),
                                !.transferred_size = TotalSize(file_list, srcfs)]
    /\ pc = "copying"
    /\ mode = "local_first"
    /\ idx = Len(file_list)
    /\ local_transfers = [i \in 1..Len(file_list) |-> file_list[i].rel]
    /\ results = StagedResults(file_list, srcfs)
    /\ probes = <<>>
    /\ deleted = {}

PushNext ==
    \/ SyncToNasStart
    \/ SyncToNasNext
    \/ SyncToNasDone

TransferNext ==
    \/ TransferFilesStart
    \/ TransferDirectNext
    \/ TransferLocalNext
    \/ TransferDirectDone
    \/ SyncToNasStart
    \/ SyncToNasNext
    \/ SyncToNasDone
    \/ CleanupAndReport

-----------------------------------------------------------------------------
(* CameraDetector: scoring one profile *)

MaxFolderRules == 2

MaxSamples == 1

MaxMatches == 2

RequiredFolderScore == 30

OptionalFolderScore == 10

PatternConfidence == 50

PatternBonusPerFile == 5

ExifConfidence == 95

ExifSampleLimit == 3

FolderPaths == {"DCIM", "MISC", "PRIVATE"}

PathIndex == [p \in FolderPaths |-> CASE p = "DCIM" -> 1 [] p = "MISC" -> 2 [] p = "PRIVATE" -> 3]

FolderRules == [path : FolderPaths, required : BOOLEAN]

\* The folder_structure lists of a profile: each folder named at most once.
FolderRuleLists ==
    {q \in SeqsUpTo(FolderRules, MaxFolderRules) :
        \A i \in 1..Len(q) : \A j \in 1..Len(q) : i < j => PathIndex[q[i].path] < PathIndex[q[j].path]}

\* The file_patterns lists of a profile: no rule, or one rule of the default confidence.
PatternRuleLists == {<<>>, <<[pattern |-> "*.JPG", confidence |-> PatternConfidence]>>}

\* The exif_rules of a profile: none, or a make and model rule of the default confidence.
ExifRuleOptions == {[present |-> FALSE, confidence |-> 0], [present |-> TRUE, confidence |-> ExifConfidence]}

\* A profile that is matched against the mounted volume: folder rules alone, or
\* folder rules with a filename-pattern rule and a metadata rule (a rule that
\* matches nothing contributes as much as no rule).
VolumeProfiles ==
    {c \in [connection_type : {"sd_card"}, folder_structure : FolderRuleLists,
            file_patterns : PatternRuleLists, exif_rules : ExifRuleOptions] :
        (c.file_patterns = <<>>) <=> ~c.exif_rules.present}

\* A profile of an MTP device: detect_camera skips it whatever its rules.
MtpProfile ==
    [connection_type |-> "mtp", folder_structure |-> <<>>, file_patterns |-> <<>>,
     exif_rules |-> [present |-> FALSE, confidence |-> 0]]

Profiles == VolumeProfiles \cup {MtpProfile}

\* What `find -name pattern` gives: a timeout, or the number of matching files.
FindOutcomes == {[status |-> "timeout", count |-> 0]} \cup {[status |-> "ok", count |-> n] : n \in 0..MaxMatches}

\* What exiftool gives for one sample file: nothing usable (error, timeout, fewer
\* than two lines), or a make and a model that do or do not match the rule.
SampleOutcomes ==
    {[status |-> "skip", make_match |-> FALSE, model_match |-> FALSE]}
        \cup [status : {"ok"}, make_match : BOOLEAN, model_match : BOOLEAN]

\* What exiftool gives for the sample files found on the card.
SampleLists == SeqsUpTo(SampleOutcomes, MaxSamples)

Min(a, b) == IF a <= b THEN a ELSE b

TestFolderStructure_FlatScore(folders, rules) ==
    LET RECURSIVE Loop(_, _)
        Loop(i, score) ==
            IF i > Len(rules) THEN score
            ELSE IF rules[i].path \in folders THEN Loop(i + 1, score + RequiredFolderScore)
            ELSE IF rules[i].required THEN 0
            ELSE Loop(i + 1, score)
    IN  Loop(1, 0)

\* _test_folder_structure
TestFolderStructure(folders, rules) ==
    LET RECURSIVE Loop(_, _)
        Loop(i, score) ==
            IF i > Len(rules) THEN score
            ELSE IF rules[i].path \in folders
            THEN Loop(i + 1, score + (IF rules[i].required THEN RequiredFolderScore ELSE OptionalFolderScore))
            ELSE IF rules[i].required THEN 0
            ELSE Loop(i + 1, score)
    IN  Loop(1, 0)

\* _test_file_patterns; finds[i] is what the search of rule i gave.
TestFilePatterns(rules, finds) ==
    LET RECURSIVE Loop(_, _)
        Loop(i, score) ==
            IF i > Len(rules) THEN score
            ELSE IF finds[i].status = "ok" /\ finds[i].count > 0
            THEN Loop(i + 1, score + Min(rules[i].confidence,
                                         rules[i].confidence + finds[i].count * PatternBonusPerFile))
            ELSE Loop(i + 1, score)
    IN  Loop(1, 0)

TestExifData_Uncapped(rules, samples) ==
    LET RECURSIVE Loop(_, _)
        Loop(i, score) ==
            IF i > Min(Len(samples), ExifSampleLimit) THEN score
            ELSE IF samples[i].status = "ok"
            THEN Loop(i + 1, score + (IF samples[i].make_match THEN rules.confidence \div 2 ELSE 0)
                                   + (IF samples[i].model_match THEN rules.confidence \div 2 ELSE 0))
            ELSE Loop(i + 1, score)
    IN  IF ~rules.present \/ samples = <<>> THEN 0
        ELSE Loop(1, 0)

\* _test_exif_data: exiftool is run on the first three sample files; a sample whose
\* read fails or times out is skipped.
TestExifData(rules, samples) ==
    LET RECURSIVE Loop(_, _)
        Loop(i, score) ==
            IF i > Min(Len(samples), ExifSampleLimit) THEN score
            ELSE IF samples[i].status = "ok"
            THEN Loop(i + 1, score + (IF samples[i].make_match THEN rules.confidence \div 2 ELSE 0)
                                   + (IF samples[i].model_match THEN rules.confidence \div 2 ELSE 0))
            ELSE Loop(i + 1, score)
    IN  IF ~rules.present \/ samples = <<>> THEN 0
        ELSE Min(Loop(1, 0), rules.confidence)

\* _test_camera_match: the CameraDetectionResult of one profile.
TestCameraMatch(folders, camera_id, camera_config, finds, samples) ==
    LET structure_score == TestFolderStructure(folders, camera_config.folder_structure)
        pattern_score == TestFilePatterns(camera_config.file_patterns, finds)
        exif_score == TestExifData(camera_config.exif_rules, samples)
    IN  [camera_id |-> camera_id,
         structure_score |-> structure_score,
         pattern_score |-> pattern_score,
         exif_score |-> exif_score,
         confidence_score |-> (IF structure_score > 0 THEN structure_score ELSE 0)
                                 + (IF pattern_score > 0 THEN pattern_score ELSE 0)
                                 + (IF exif_score > 0 THEN exif_score ELSE 0),
         detection_methods |-> (IF structure_score > 0 THEN <<"folder_structure">> ELSE <<>>)
                                 \o (IF pattern_score > 0 THEN <<"file_patterns">> ELSE <<>>)
                                 \o (IF exif_score > 0 THEN <<"exif_data">> ELSE <<>>)]

-----------------------------------------------------------------------------
(* CameraDetector.detect_camera *)

CameraIds == <<"A", "B">>

NoDetection == [found |-> FALSE, camera_id |-> 0, confidence_score |-> 0, detection_methods |-> <<>>]

Detection(r) ==
    [found |-> TRUE, camera_id |-> r.camera_id, confidence_score |-> r.confidence_score,
     detection_methods |-> r.detection_methods]

KeepResult_NonNegative(r) == r.confidence_score >= 0

\* detect_camera keeps a result for the final choice.
KeepResult(r) == r.confidence_score > 0

\* max(detection_results, key=confidence_score): the first of the maximal results.
BestResult(rs) ==
    LET RECURSIVE Loop(_, _)
        Loop(i, best) ==
            IF i > Len(rs) THEN best
            ELSE IF rs[i].confidence_score > best.confidence_score THEN Loop(i + 1, rs[i])
            ELSE Loop(i + 1, best)
    IN  Loop(2, rs[1])

\* detect_camera up to its loop: the check of the mount path.
DetectCameraStart ==
    /\ dpc = "idle"
    /\ IF volume.exists
       THEN dpc' = "testing" /\ detected' = detected
       ELSE dpc' = "returned" /\ detected' = NoDetection
    /\ UNCHANGED <<cameras, volume, didx, tested, detection_results>>
    /\ UNCHANGED NotDetect

\* An iteration of detect_camera's loop on an MTP profile.
SkipMtpCamera ==
    /\ dpc = "testing"
    /\ didx < Len(cameras)
    /\ cameras[didx + 1].connection_type = "mtp"
    /\ didx' = didx + 1
    /\ UNCHANGED <<cameras, volume, dpc, tested, detection_results, detected>>
    /\ UNCHANGED NotDetect

\* An iteration of detect_camera's loop on a volume-mounted profile; what the
\* searches and the metadata reads give is the card's answer at that moment.
TestNextCamera ==
    /\ dpc = "testing"
    /\ didx < Len(cameras)
    /\ cameras[didx + 1].connection_type # "mtp"
    /\ LET cfg == cameras[didx + 1]
       IN  \E result \in {TestCameraMatch(volume.folders, didx + 1, cfg, finds, samples) :
                             finds \in [1..Len(cfg.file_patterns) -> FindOutcomes],
                             samples \in SampleLists} :
             /\ tested' = Append(tested, result)
             /\ detection_results' =
                   IF KeepResult(result) THEN Append(detection_results, result)
                   ELSE detection_results
    /\ didx' = didx + 1
    /\ UNCHANGED <<cameras, volume, dpc, detected>>
    /\ UNCHANGED NotDetect

\* The end of detect_camera: no detection, or the best result.
DetectCameraReturn ==
    /\ dpc = "testing"
    /\ didx = Len(cameras)
    /\ dpc' = "returned"
    /\ detected' = IF detection_results = <<>> THEN NoDetection
                   ELSE Detection(BestResult(detection_results))
    /\ UNCHANGED <<cameras, volume, didx, tested, detection_results>>
    /\ UNCHANGED NotDetect

\* A CameraDetector as constructed from its configuration, and a card.
DetectInit ==
    /\ cameras \in [1..Len(CameraIds) -> Profiles]
    /\ volume \in {[exists |-> FALSE, folders |-> {}]} \cup [exists : {TRUE}, folders : SUBSET FolderPaths]
    /\ dpc = "idle"
    /\ didx = 0
    /\ tested = <<>>
    /\ detection_results = <<>>
    /\ detected = NoDetection

DetectNext ==
    \/ DetectCameraStart
    \/ SkipMtpCamera
    \/ TestNextCamera
    \/ DetectCameraReturn

-----------------------------------------------------------------------------
(* ChecksumManager.verify_transfer on its own *)

MaxLen == 2

\* The files verify_transfer can meet at either path.
VerifyFiles ==
    [kind : {"ok", "unreadable"}, data : SeqsUpTo(Bytes, MaxLen)] \cup {Absent}

\* A call of verify_transfer, from entry to return.
VerifyTransferCall ==
    /\ vpc = "idle"
    /\ vresult' = VerifyTransfer(vsource, vdest)
    /\ vpc' = "returned"
    /\ UNCHANGED <<vsource, vdest>>
    /\ UNCHANGED NotVerify

VerifyInit ==
    /\ vsource \in VerifyFiles
    /\ vdest \in VerifyFiles
    /\ vpc = "idle"
    /\ vresult = FALSE

-----------------------------------------------------------------------------
(* DuplicateManager.check_duplicates *)

MaxPaths == 3

DupPaths == {"p1", "p2", "p3"}

\* The files check_duplicates can meet: two contents, or a file that cannot be read.
DupFiles == {RegularFile(<<0>>), RegularFile(<<1>>), [kind |-> "unreadable", data |-> <<0>>]}

\* dict[key] = value
Put(dict, key, value) == [k \in DOMAIN dict \cup {key} |-> IF k = key THEN value ELSE dict[k]]

EmptyDict == [k \in {} |-> <<>>]

CheckDuplicates_StopAtFailure(paths, fs) ==
    LET RECURSIVE Loop(_, _, _)
        Loop(i, checksums, duplicates) ==
            IF i > Len(paths) THEN duplicates
            ELSE LET c == CalculateChecksum(fs[paths[i]])
                 IN  IF ~c.ok THEN duplicates
                     ELSE IF c.sum \in DOMAIN checksums
                     THEN LET started == IF c.sum \in DOMAIN duplicates THEN duplicates
                                         ELSE Put(duplicates, c.sum, <<checksums[c.sum]>>)
                          IN  Loop(i + 1, checksums, Put(started, c.sum, Append(started[c.sum], paths[i])))
                     ELSE Loop(i + 1, Put(checksums, c.sum, paths[i]), duplicates)
    IN  Loop(1, EmptyDict, EmptyDict)

\* check_duplicates: the dict of digest -> paths it returns.
CheckDuplicates(paths, fs) ==
    LET RECURSIVE Loop(_, _, _)
        Loop(i, checksums, duplicates) ==
            IF i > Len(paths) THEN duplicates
            ELSE LET c == CalculateChecksum(fs[paths[i]])
                 IN  IF ~c.ok THEN Loop(i + 1, checksums, duplicates)
                     ELSE IF c.sum \in DOMAIN checksums
                     THEN LET started == IF c.sum \in DOMAIN duplicates THEN duplicates
                                         ELSE Put(duplicates, c.sum, <<checksums[c.sum]>>)
                          IN  Loop(i + 1, checksums, Put(started, c.sum, Append(started[c.sum], paths[i])))
                     ELSE Loop(i + 1, Put(checksums, c.sum, paths[i]), duplicates)
    IN  Loop(1, EmptyDict, EmptyDict)

\* A call of check_duplicates, from entry to return.
CheckDuplicatesCall ==
    /\ dup_pc = "idle"
    /\ dup_result' = CheckDuplicates(dup_list, dup_fs)
    /\ dup_pc' = "returned"
    /\ UNCHANGED <<dup_list, dup_fs>>
    /\ UNCHANGED NotDuplicates

DuplicatesInit ==
    /\ dup_list \in SeqsUpTo(DupPaths, MaxPaths)
    /\ dup_fs \in [DupPaths -> DupFiles]
    /\ dup_pc = "idle"
    /\ dup_result = EmptyDict

-----------------------------------------------------------------------------
(* The confirmation gate: request_confirmation, wait_for_confirmation and
   confirm_transfer of web/app.py, and steps 4 to 7 of process_sd_card *)

MaxTimeout == 3

MaxRequests == 2

MaxPosts == 2

\* The 'action' a client can post to /api/confirm_transfer; "none" is a request
\* without the field.
PostedActions == {"proceed", "cancel", "none"}

NoConfirmation == [action |-> "unset", timeout |-> FALSE]

\* The dict confirm_transfer stores for wait_for_confirmation.
PostedConfirmation(a) == [action |-> a, timeout |-> FALSE]

TimeoutConfirmation_Proceed == [action |-> "proceed", timeout |-> TRUE]

\* The default wait_for_confirmation returns when the time is up.
TimeoutConfirmation == [action |-> "cancel", timeout |-> TRUE]

\* How transfer_files can end, as process_sd_card sees it.
TransferOutcomes == {"all_copied", "some_failed", "raised"}

RequestConfirmation_KeepPending ==
    /\ kpc = "checked"
    /\ require_confirmation
    /\ status' = "confirming"
    /\ requests' = requests + 1
    /\ elapsed' = 0
    /\ kpc' = "waiting"
    /\ UNCHANGED <<require_confirmation, timeout_seconds, confirmation, submitted, copied, cleaned,
                   accepted, returns, answer, pending_confirmation, pending_id>>
    /\ UNCHANGED NotConfirm

\* Step 4 of process_sd_card with confirmation required: request_confirmation, and
\* wait_for_confirmation taking its start time.
RequestConfirmation ==
    /\ kpc = "checked"
    /\ require_confirmation
    /\ status' = "confirming"
    /\ pending_confirmation' = NoConfirmation
    /\ pending_id' = 0
    /\ requests' = requests + 1
    /\ elapsed' = 0
    /\ kpc' = "waiting"
    /\ UNCHANGED <<require_confirmation, timeout_seconds, confirmation, submitted, copied, cleaned,
                   accepted, returns, answer>>
    /\ UNCHANGED NotConfirm

\* Step 4 with confirmation not required, and update_status('transferring').
SkipConfirmation ==
    /\ kpc = "checked"
    /\ ~require_confirmation
    /\ status' = "transferring"
    /\ kpc' = "transferring"
    /\ UNCHANGED <<require_confirmation, timeout_seconds, pending_confirmation, elapsed,
                   confirmation, submitted, copied, cleaned>>
    /\ UNCHANGED <<requests, accepted, pending_id, returns, answer>>
    /\ UNCHANGED NotConfirm

\* The handler of POST /api/confirm_transfer: under the lock it stores the decision
\* while a confirmation is awaited, and answers 400 otherwise.
ConfirmTransfer ==
    /\ \E a \in PostedActions :
         IF status = "confirming"
         THEN /\ Len(accepted) < MaxPosts
              /\ pending_confirmation' = PostedConfirmation(a)
              /\ submitted' = submitted \cup {a}
              /\ accepted' = Append(accepted, [action |-> a, request |-> requests, status |-> status])
              /\ pending_id' = Len(accepted) + 1
              /\ answer' = "success"
         ELSE /\ answer' = "error 400"
              /\ UNCHANGED <<pending_confirmation, submitted, accepted, pending_id>>
    /\ UNCHANGED <<require_confirmation, timeout_seconds, status, kpc, elapsed, confirmation,
                   copied, cleaned, requests, returns>>
    /\ UNCHANGED NotConfirm

\* One turn of the loop of wait_for_confirmation: take the pending decision, or sleep.
WaitForConfirmationPoll ==
    /\ kpc = "waiting"
    /\ elapsed < timeout_seconds
    /\ IF pending_confirmation # NoConfirmation
       THEN /\ confirmation' = pending_confirmation
            /\ pending_confirmation' = NoConfirmation
            /\ returns' = Append(returns, [request |-> requests, id |-> pending_id])
            /\ pending_id' = 0
            /\ kpc' = "decided"
            /\ elapsed' = elapsed
       ELSE /\ elapsed' = elapsed + 1
            /\ UNCHANGED <<confirmation, pending_confirmation, kpc, returns, pending_id>>
    /\ UNCHANGED <<require_confirmation, timeout_seconds, status, submitted, copied, cleaned,
                   requests, accepted, answer>>
    /\ UNCHANGED NotConfirm

\* The exit of the loop of wait_for_confirmation when the time is up.
WaitForConfirmationTimeout ==
    /\ kpc = "waiting"
    /\ elapsed >= timeout_seconds
    /\ confirmation' = TimeoutConfirmation
    /\ returns' = Append(returns, [request |-> requests, id |-> 0])
    /\ kpc' = "decided"
    /\ UNCHANGED <<require_confirmation, timeout_seconds, status, pending_confirmation, elapsed,
                   submitted, copied, cleaned, requests, accepted, pending_id, answer>>
    /\ UNCHANGED NotConfirm

\* process_sd_card on the returned decision: cancel the run, or go on to step 5.
ProcessConfirmation ==
    /\ kpc = "decided"
    /\ IF confirmation.action # "proceed"
       THEN status' = "idle" /\ kpc' = "cancelled"
       ELSE status' = "transferring" /\ kpc' = "transferring"
    /\ UNCHANGED <<require_confirmation, timeout_seconds, pending_confirmation, elapsed,
                   confirmation, submitted, copied, cleaned>>
    /\ UNCHANGED <<requests, accepted, pending_id, returns, answer>>
    /\ UNCHANGED NotConfirm

\* Steps 5 to 7 of process_sd_card: transfer_files, the cleanup of the card when
\* every file was copied and delete_after_transfer is set, and the report.
TransferAndCleanup ==
    /\ kpc = "transferring"
    /\ copied' = TRUE
    /\ \E outcome \in TransferOutcomes, delete_after_transfer \in BOOLEAN :
         /\ cleaned' = (outcome = "all_copied" /\ delete_after_transfer)
         /\ status' = IF outcome = "all_copied" THEN "complete" ELSE "error"
    /\ kpc' = "finished"
    /\ UNCHANGED <<require_confirmation, timeout_seconds, pending_confirmation, elapsed,
                   confirmation, submitted>>
    /\ UNCHANGED <<requests, accepted, pending_id, returns, answer>>
    /\ UNCHANGED NotConfirm

\* process_sd_card is called for a further card in the same process: steps 1 to 3,
\* from update_status('detecting') on.
ProcessNextCard ==
    /\ kpc \in {"cancelled", "finished"}
    /\ requests < MaxRequests
    /\ status' = "detecting"
    /\ kpc' = "checked"
    /\ elapsed' = 0
    /\ confirmation' = NoConfirmation
    /\ copied' = FALSE
    /\ cleaned' = FALSE
    /\ UNCHANGED <<require_confirmation, timeout_seconds, pending_confirmation, submitted,
                   requests, accepted, pending_id, returns, answer>>
    /\ UNCHANGED NotConfirm

\* process_sd_card after step 3, with the web interface as update_status('detecting')
\* left it.
ConfirmInit ==
    /\ require_confirmation \in BOOLEAN
    /\ timeout_seconds \in 0..MaxTimeout
    /\ status = "detecting"
    /\ pending_confirmation = NoConfirmation
    /\ kpc = "checked"
    /\ elapsed = 0
    /\ confirmation = NoConfirmation
    /\ submitted = {}
    /\ copied = FALSE
    /\ cleaned = FALSE
    /\ requests = 0
    /\ accepted = <<>>
    /\ pending_id = 0
    /\ returns = <<>>
    /\ answer = "none"

ConfirmNext ==
    \/ RequestConfirmation
    \/ SkipConfirmation
    \/ ConfirmTransfer
    \/ WaitForConfirmationPoll
    \/ WaitForConfirmationTimeout
    \/ ProcessConfirmation
    \/ TransferAndCleanup
    \/ ProcessNextCard

-----------------------------------------------------------------------------
(* CameraDetector._test_exif_data on its own *)

MaxExifSamples == 4

\* The exif_rules handed to _test_exif_data: none, the default confidence, or a
\* declared confidence of 80.
ExifTestRules == ExifRuleOptions \cup {[present |-> TRUE, confidence |-> 80]}

\* A call of _test_exif_data, from entry to return.
TestExifDataCall ==
    /\ epc = "idle"
    /\ exif_returned' = TestExifData(exif_rules, exif_samples)
    /\ epc' = "returned"
    /\ UNCHANGED <<exif_rules, exif_samples>>
    /\ UNCHANGED NotExif

\* The rules of a profile and what exiftool gives for the files _find_sample_files found.
ExifInit ==
    /\ exif_rules \in ExifTestRules
    /\ exif_samples \in SeqsUpTo(SampleOutcomes, MaxExifSamples)
    /\ epc = "idle"
    /\ exif_returned = 0

-----------------------------------------------------------------------------
(* TransferManager.get_progress polled by the monitoring thread of process_sd_card
   while transfer_files runs: the statements of the two threads that read or
   write TransferManager.stats, one attribute access at a time *)

MaxPolledFiles == 2

\* The dict of get_progress before any of its entries is evaluated.
EmptySnapshot ==
    [total_files |-> -1, completed_successful |-> -1, completed_files |-> -1,
     successful_transfers |-> -1, failed_transfers |-> -1,
     total_size |-> -1, transferred_size |-> -1]

\* transfer_files: self.stats = TransferStats().
RunResetStats ==
    /\ wpc = "idle"
    /\ pstats' = NewStats
    /\ wpc' = "reset"
    /\ UNCHANGED <<ptotal, wdone, rpc, snapshot>>
    /\ UNCHANGED NotProgress

\* transfer_files: self.stats.total_files = len(file_list).
RunSetTotalFiles ==
    /\ wpc = "reset"
    /\ pstats' = [pstats EXCEPT !.total_files = ptotal]
    /\ wpc' = "sizing"
    /\ wdone' = 0
    /\ UNCHANGED <<ptotal, rpc, snapshot>>
    /\ UNCHANGED NotProgress

\* transfer_files: one turn of the loop over os.path.getsize (files of one byte),
\* and after the last one the mode selection.
RunAddTotalSize ==
    /\ wpc = "sizing"
    /\ IF wdone < ptotal
       THEN /\ pstats' = [pstats EXCEPT !.total_size = @ + 1]
            /\ wdone' = wdone + 1
            /\ wpc' = wpc
       ELSE /\ wpc' = "copying"
            /\ wdone' = 0
            /\ pstats' = pstats
    /\ UNCHANGED <<ptotal, rpc, snapshot>>
    /\ UNCHANGED NotProgress

\* _update_stats after one copy: the count of the result.
RunCountResult ==
    /\ wpc = "copying"
    /\ wdone < ptotal
    /\ \E success \in BOOLEAN :
         IF success
         THEN /\ pstats' = [pstats EXCEPT !.successful_transfers = @ + 1]
              /\ wpc' = "adding"
              /\ wdone' = wdone
         ELSE /\ pstats' = [pstats EXCEPT !.failed_transfers = @ + 1]
              /\ wpc' = wpc
              /\ wdone' = wdone + 1
    /\ UNCHANGED <<ptotal, rpc, snapshot>>
    /\ UNCHANGED NotProgress

\* _update_stats after a successful copy: the size added to transferred_size.
RunAddTransferredSize ==
    /\ wpc = "adding"
    /\ pstats' = [pstats EXCEPT !.transferred_size = @ + 1]
    /\ wpc' = "copying"
    /\ wdone' = wdone + 1
    /\ UNCHANGED <<ptotal, rpc, snapshot>>
    /\ UNCHANGED NotProgress

\* transfer_files: _get_transfer_mode raises (NAS unavailable and local fallback
\* disabled); process_sd_card catches the exception, reports it and returns.
RunModeSelectionRaises ==
    /\ wpc = "sizing"
    /\ wdone = ptotal
    /\ wpc' = "raised"
    /\ UNCHANGED <<ptotal, wdone, pstats, rpc, snapshot>>
    /\ UNCHANGED NotProgress

\* transfer_files returns.
RunReturn ==
    /\ wpc = "copying"
    /\ wdone = ptotal
    /\ wpc' = "done"
    /\ UNCHANGED <<ptotal, wdone, pstats, rpc, snapshot>>
    /\ UNCHANGED NotProgress

\* _monitor_transfer_progress calls get_progress, for the first time, or again
\* unless the last snapshot showed every file completed.
GetProgressCall ==
    /\ \/ rpc = "idle"
       \/ /\ rpc = "returned"
          /\ ~(snapshot.total_files > 0 /\ snapshot.completed_files >= snapshot.total_files)
    /\ snapshot' = EmptySnapshot
    /\ rpc' = "total_files"
    /\ UNCHANGED <<ptotal, wpc, wdone, pstats>>
    /\ UNCHANGED NotProgress

\* _monitor_transfer_progress leaves its loop: the last snapshot showed every file
\* completed.
MonitorBreak ==
    /\ rpc = "returned"
    /\ snapshot.total_files > 0 /\ snapshot.completed_files >= snapshot.total_files
    /\ rpc' = "stopped"
    /\ UNCHANGED <<ptotal, wpc, wdone, pstats, snapshot>>
    /\ UNCHANGED NotProgress

\* The attribute get_progress reads at each position, and the position that follows.
ReadOrder ==
    [total_files |-> "completed_successful",
     completed_successful |-> "completed_files",
     completed_files |-> "successful_transfers",
     successful_transfers |-> "failed_transfers",
     failed_transfers |-> "total_size",
     total_size |-> "transferred_size",
     transferred_size |-> "returned"]

\* get_progress evaluates the next entry of its dict from self.stats; 'completed_files'
\* takes two reads, successful_transfers and then failed_transfers.
GetProgressRead ==
    /\ rpc \in DOMAIN ReadOrder
    /\ snapshot' =
          IF rpc = "completed_successful"
          THEN [snapshot EXCEPT !.completed_successful = pstats.successful_transfers]
          ELSE IF rpc = "completed_files"
          THEN [snapshot EXCEPT !.completed_files = snapshot.completed_successful + pstats.failed_transfers]
          ELSE [snapshot EXCEPT ![rpc] = pstats[rpc]]
    /\ rpc' = ReadOrder[rpc]
    /\ UNCHANGED <<ptotal, wpc, wdone, pstats>>
    /\ UNCHANGED NotProgress

\* The monitoring thread is started, then transfer_files is called.
ProgressInit ==
    /\ ptotal \in 1..MaxPolledFiles
    /\ wpc = "idle"
    /\ wdone = 0
    /\ pstats = NewStats
    /\ rpc = "idle"
    /\ snapshot = EmptySnapshot

\* The steps of the thread of process_sd_card that runs transfer_files.
RunStep ==
    \/ RunResetStats
    \/ RunSetTotalFiles
    \/ RunAddTotalSize
    \/ RunModeSelectionRaises
    \/ RunCountResult
    \/ RunAddTransferredSize
    \/ RunReturn

\* The steps of the monitoring thread.
MonitorStep ==
    \/ GetProgressCall
    \/ GetProgressRead
    \/ MonitorBreak

ProgressNext ==
    \/ RunResetStats
    \/ RunSetTotalFiles
    \/ RunAddTotalSize
    \/ RunModeSelectionRaises
    \/ RunCountResult
    \/ RunAddTransferredSize
    \/ RunReturn
    \/ GetProgressCall
    \/ GetProgressRead
    \/ MonitorBreak

-----------------------------------------------------------------------------
(* CameraDetector._get_file_sources, _find_files_in_path and prepare_file_list.
   A path is the sequence of its components below "/" *)

MaxSourceRules == 2

\* sd_card_path
SdCardPath == <<"media", "sd">>

\* The files of the file system, on the card and beside it, in the order of
\* their path strings.
FsFiles ==
    << <<"media", "other", "C.JPG">>,
       <<"media", "sd", "DCIM", "100", "A.JPG">>,
       <<"media", "sd", "DCIM", "100", "B.MP4">>,
       <<"media", "sd", "DCIM", "101", "A.JPG">> >>

FsFileSet == {FsFiles[i] : i \in 1..Len(FsFiles)}

\* The place of a path in the order of the path strings.
PathRank(p) == CHOOSE i \in 1..Len(FsFiles) : FsFiles[i] = p

\* os.path.basename
Basename(p) == p[Len(p)]

\* str.lower() of an extension and of the suffix of a file name.
LowerExt == [e \in {".JPG", ".jpg"} |-> ".jpg"] @@ [e \in {".MP4", ".mp4"} |-> ".mp4"]

NameSuffix == [n \in {"A.JPG", "C.JPG"} |-> ".JPG"] @@ [n \in {"B.MP4"} |-> ".MP4"]

IsPrefix(a, b) == Len(a) <= Len(b) /\ SubSeq(b, 1, Len(a)) = a

\* The source rules a profile can list under a file type: a path relative to the
\* card (or an absolute one), extensions, and the recursive flag.
SourceRules ==
    {[absolute |-> FALSE, path |-> <<"DCIM">>, extensions |-> <<".jpg", ".JPG">>, recursive |-> TRUE],
     [absolute |-> FALSE, path |-> <<"DCIM", "100">>, extensions |-> <<".JPG", ".MP4">>, recursive |-> FALSE],
     [absolute |-> FALSE, path |-> <<"DCIM">>, extensions |-> <<".MP4">>, recursive |-> FALSE],
     [absolute |-> FALSE, path |-> <<"DCIM">>, extensions |-> <<>>, recursive |-> TRUE],
     [absolute |-> TRUE, path |-> <<"media", "other">>, extensions |-> <<".JPG">>, recursive |-> FALSE]}

\* The file types of a profile, in the order of the configuration.
FileTypes == <<"photos", "videos">>

\* The file_sources sections: at most MaxSourceRules rules in all.
SourcesConfigs ==
    {sc \in [{"photos", "videos"} -> SeqsUpTo(SourceRules, MaxSourceRules)] :
        Len(sc["photos"]) + Len(sc["videos"]) <= MaxSourceRules}

\* os.path.join(sd_card_path, path): an absolute second argument replaces the first.
JoinPath(base, rule) == IF rule.absolute THEN rule.path ELSE base \o rule.path

\* sorted(): the paths of a set in the order of their strings.
SortedPaths(S) ==
    LET RECURSIVE Loop(_, _)
        Loop(i, acc) ==
            IF i > Len(FsFiles) THEN acc
            ELSE Loop(i + 1, IF FsFiles[i] \in S THEN Append(acc, FsFiles[i]) ELSE acc)
    IN  Loop(1, <<>>)

\* `find path [-maxdepth 1] -iname '*ext' -type f`
FindFiles(path, ext, recursive, files) ==
    {f \in files :
        /\ LowerExt[NameSuffix[Basename(f)]] = LowerExt[ext]
        /\ IF recursive THEN IsPrefix(path, f) /\ Len(f) > Len(path)
           ELSE SubSeq(f, 1, Len(f) - 1) = path}

\* _find_files_in_path: the searches of the extensions in timed_out time out.
FindFilesInPath(path, extensions, recursive, files, timed_out) ==
    LET RECURSIVE Loop(_, _)
        Loop(i, acc) ==
            IF i > Len(extensions) THEN acc
            ELSE IF i \in timed_out THEN Loop(i + 1, acc)
            ELSE Loop(i + 1, acc \o SortedPaths(FindFiles(path, extensions[i], recursive, files)))
        found == Loop(1, <<>>)
    IN  IF extensions = <<>> THEN <<>>
        ELSE SortedPaths({found[i] : i \in 1..Len(found)})

\* os.path.exists(source_path) for a folder: some file lies below it.
FolderExists(path, files) == \E f \in files : IsPrefix(path, f) /\ Len(f) > Len(path)

\* The inner loop of _get_file_sources: the files of one file type.
FilesOfType(source_configs, files, timed_out) ==
    LET RECURSIVE Loop(_, _)
        Loop(i, acc) ==
            IF i > Len(source_configs) THEN acc
            ELSE LET source_path == JoinPath(SdCardPath, source_configs[i])
                 IN  IF FolderExists(source_path, files)
                     THEN Loop(i + 1, acc \o FindFilesInPath(source_path, source_configs[i].extensions,
                                                            source_configs[i].recursive, files, timed_out[i]))
                     ELSE Loop(i + 1, acc)
    IN  Loop(1, <<>>)

\* os.path.relpath(path, start) for normalised absolute paths: one '..' for each
\* component of start below the common prefix, then the rest of path.
RelPath(path, start) ==
    LET common == CHOOSE n \in 0..Len(start) :
                     /\ n <= Len(path)
                     /\ SubSeq(path, 1, n) = SubSeq(start, 1, n)
                     /\ (n < Len(start) /\ n < Len(path) => path[n + 1] # start[n + 1])
        rel == [k \in 1..(Len(start) - common) |-> ".."] \o SubSeq(path, common + 1, Len(path))
    IN  IF rel = <<>> THEN <<".">> ELSE rel

\* prepare_file_list; os.path.relpath raises ValueError for an empty path only.
PrepareFileList(sources, sd_card_path, preserve) ==
    LET RECURSIVE Files(_, _, _)
        Files(file_type, files, acc) ==
            IF files = <<>> THEN acc
            ELSE LET file_path == Head(files)
                 IN  IF file_path = <<>> THEN Files(file_type, Tail(files), acc)
                     ELSE LET rel_path == IF preserve THEN RelPath(file_path, sd_card_path)
                                          ELSE <<file_type, Basename(file_path)>>
                          IN  Files(file_type, Tail(files), Append(acc, [source |-> file_path, rel |-> rel_path]))
        RECURSIVE Types(_, _)
        Types(i, acc) ==
            IF i > Len(sources) THEN acc
            ELSE Types(i + 1, Files(sources[i].file_type, sources[i].files, acc))
    IN  Types(1, <<>>)

\* One turn of the outer loop of _get_file_sources: the source rules of a file type.
GetFileSourcesNext ==
    /\ fpc = "sources"
    /\ ftype < Len(FileTypes)
    /\ LET file_type == FileTypes[ftype + 1]
           source_configs == sources_config[file_type]
       IN  \E timed_out \in [1..Len(source_configs) -> SUBSET (1..2)] :
             LET files == FilesOfType(source_configs, sd_files, timed_out)
             IN  file_sources' = IF files # <<>>
                                 THEN Append(file_sources, [file_type |-> file_type, files |-> files])
                                 ELSE file_sources
    /\ ftype' = ftype + 1
    /\ UNCHANGED <<sources_config, sd_files, preserve_folder_structure, fpc, prepared>>
    /\ UNCHANGED NotFileList

\* _get_file_sources returns; process_sd_card hands the result to prepare_file_list.
GetFileSourcesReturn ==
    /\ fpc = "sources"
    /\ ftype = Len(FileTypes)
    /\ fpc' = "prepare"
    /\ UNCHANGED <<sources_config, sd_files, preserve_folder_structure, ftype, file_sources, prepared>>
    /\ UNCHANGED NotFileList

\* A call of prepare_file_list, from entry to return.
PrepareFileListCall ==
    /\ fpc = "prepare"
    /\ prepared' = PrepareFileList(file_sources, SdCardPath, preserve_folder_structure)
    /\ fpc' = "returned"
    /\ UNCHANGED <<sources_config, sd_files, preserve_folder_structure, ftype, file_sources>>
    /\ UNCHANGED NotFileList

\* The winning profile's file_sources section, the files in reach and the setting.
FileListInit ==
    /\ sources_config \in SourcesConfigs
    /\ sd_files \in SUBSET FsFileSet
    /\ preserve_folder_structure \in BOOLEAN
    /\ fpc = "sources"
    /\ ftype = 0
    /\ file_sources = <<>>
    /\ prepared = <<>>

FileListNext ==
    \/ GetFileSourcesNext
    \/ GetFileSourcesReturn
    \/ PrepareFileListCall

-----------------------------------------------------------------------------
(* transfer_files when files are already present under the destination roots *)

MaxOverwriting == 1

\* A file a previous import left at a destination path.
ExistingFiles == {Absent, RegularFile(<<1>>)}

\* A TransferManager as constructed, a card, a file list, and destination roots
\* that hold files of earlier imports of the same device and day.
ExistingInit ==
    /\ config \in Configs
    /\ file_list \in SeqsUpTo(FileEntries, MaxOverwriting)
    /\ srcfs \in [SourcesOf(file_list) -> SourceFiles]
    /\ nasfs \in [RelPaths -> ExistingFiles]
    /\ localfs \in [RelPaths -> ExistingFiles]
    /\ stats = NewStats
    /\ pc = "idle"
    /\ mode = "none"
    /\ idx = 0
    /\ local_transfers = <<>>
    /\ results = <<>>
    /\ probes = <<>>
    /\ deleted = {}

-----------------------------------------------------------------------------
(* CameraDetector._test_file_patterns on its own *)

MaxPatternRules == 2

\* The confidence of a pattern rule: the default, or a configured one.
PatternConfidences == {PatternConfidence, PatternConfidence - 20}

PatternRules == [pattern : {"*.JPG"}, confidence : PatternConfidences]

\* A call of _test_file_patterns, from entry to return.
TestFilePatternsCall ==
    /\ ppc = "idle"
    /\ pattern_returned' = TestFilePatterns(pattern_rules, pattern_finds)
    /\ ppc' = "returned"
    /\ UNCHANGED <<pattern_rules, pattern_finds>>
    /\ UNCHANGED NotPatterns

\* The pattern rules of a profile and what the search of each one gives.
PatternsInit ==
    /\ pattern_rules \in SeqsUpTo(PatternRules, MaxPatternRules)
    /\ pattern_finds \in [1..Len(pattern_rules) -> FindOutcomes]
    /\ ppc = "idle"
    /\ pattern_returned = 0

-----------------------------------------------------------------------------
(* DuplicateManager.check_existing_files and steps 3 to 5 of process_sd_card:
   the conflict report, the confirmation and the destinations of the transfer *)

MaxExisting == 1

MaxListed == 2

\* The defaults of local_storage_path and nas_storage_path, and configured values.
DefaultLocalPath == "/tmp/photos"

DefaultNasPath == "/mnt/nas/Photos"

LocalPaths == {"unset", "/srv/photos"}

NasPaths == {"unset", "/mnt/nas/Camera"}

\* dict.get(key, default)
GetOr(value, default) == IF value = "unset" THEN default ELSE value

\* The sections of the settings with storage roots, and the date format.
StorageSections == [local_storage_path : LocalPaths, nas_storage_path : NasPaths]

DateFormats == {"%Y%m%d", "%Y-%m-%d"}

Settings == [transfer_settings : StorageSections, duplicate_handling : StorageSections, date_format : DateFormats]

\* datetime.now() on the day of the import.
Today == [year |-> "2024", month |-> "01", day |-> "02"]

\* strftime: the pieces of the formatted date, in order.
FormatDate(now, format) ==
    IF format = "%Y%m%d" THEN <<now.year, now.month, now.day>>
    ELSE <<now.year, "-", now.month, "-", now.day>>

\* os.path.join(base, device_name, import_date, relative_dest), for the one device.
DestPath(base, import_date, relative_dest) == [root |-> base, date |-> import_date, rel |-> relative_dest]

\* The destination paths at which a file can exist.
AllDestPaths ==
    {DestPath(base, FormatDate(Today, format), rel) :
        base \in {DefaultLocalPath, DefaultNasPath} \cup ((LocalPaths \cup NasPaths) \ {"unset"}),
        format \in DateFormats, rel \in RelPaths}

CheckExistingFiles_LocalOnly(fl, import_date, cfg, existing) ==
    LET local_base == GetOr(cfg.local_storage_path, DefaultLocalPath)
        RECURSIVE Loop(_, _)
        Loop(i, acc) ==
            IF i > Len(fl) THEN acc
            ELSE IF DestPath(local_base, import_date, fl[i]) \in existing
            THEN Loop(i + 1, Append(acc, fl[i]))
            ELSE Loop(i + 1, acc)
    IN  Loop(1, <<>>)

\* check_existing_files; fl holds the relative_dest of each entry.
CheckExistingFiles(fl, import_date, cfg, existing) ==
    LET local_base == GetOr(cfg.local_storage_path, DefaultLocalPath)
        nas_base == GetOr(cfg.nas_storage_path, DefaultNasPath)
        RECURSIVE Loop(_, _)
        Loop(i, acc) ==
            IF i > Len(fl) THEN acc
            ELSE IF \/ DestPath(local_base, import_date, fl[i]) \in existing
                    \/ DestPath(nas_base, import_date, fl[i]) \in existing
            THEN Loop(i + 1, Append(acc, fl[i]))
            ELSE Loop(i + 1, acc)
    IN  Loop(1, <<>>)

\* Step 3 of process_sd_card: check_existing_files of the DuplicateManager, built
\* on the duplicate_handling section, with the date copy_targets as %Y%m%d.
CheckExistingFilesCall ==
    /\ xpc = "idle"
    /\ conflicts' = CheckExistingFiles(checked_list, FormatDate(Today, "%Y%m%d"),
                                       settings.duplicate_handling, dest_files)
    /\ xpc' = "checked"
    /\ UNCHANGED <<settings, dest_files, checked_list, decision, import_folder, copy_targets>>
    /\ UNCHANGED NotConflicts

\* Step 4 of process_sd_card: the conflicts are shown with the request; the run goes
\* on unless a confirmation is required and the answer is not 'proceed'.
ConfirmConflicts ==
    /\ xpc = "checked"
    /\ \E required \in BOOLEAN, action \in {"proceed", "cancel"} :
         /\ decision' = [required |-> required, action |-> action]
         /\ xpc' = IF required /\ action # "proceed" THEN "cancelled" ELSE "transferring"
    /\ UNCHANGED <<settings, dest_files, checked_list, conflicts, import_folder, copy_targets>>
    /\ UNCHANGED NotConflicts

\* Step 5 of process_sd_card: the import date in the configured format, and the
\* destinations transfer_files of the TransferManager, built on the
\* transfer_settings section, writes to in the mode it selects.
TransferToDestinations ==
    /\ xpc = "transferring"
    /\ \E m \in {"direct_nas", "local_first"} :
         LET date == FormatDate(Today, settings.date_format)
             base == IF m = "direct_nas"
                     THEN GetOr(settings.transfer_settings.nas_storage_path, DefaultNasPath)
                     ELSE GetOr(settings.transfer_settings.local_storage_path, DefaultLocalPath)
         IN  /\ import_folder' = date
             /\ copy_targets' = {DestPath(base, date, checked_list[i]) : i \in 1..Len(checked_list)}
    /\ xpc' = "transferred"
    /\ UNCHANGED <<settings, dest_files, checked_list, conflicts, decision>>
    /\ UNCHANGED NotConflicts

\* The settings, the files of earlier imports and the prepared (non-empty) list.
ConflictsInit ==
    /\ settings \in Settings
    /\ dest_files \in {S \in SUBSET AllDestPaths : Cardinality(S) <= MaxExisting}
    /\ checked_list \in SeqsUpTo(RelPaths, MaxListed) \ {<<>>}
    /\ conflicts = <<>>
    /\ xpc = "idle"
    /\ decision = [required |-> FALSE, action |-> "none"]
    /\ import_folder = <<>>
    /\ copy_targets = {}

ConflictsNext ==
    \/ CheckExistingFilesCall
    \/ ConfirmConflicts
    \/ TransferToDestinations

-----------------------------------------------------------------------------
(* SDCardOffloader.process_sd_card and the status it reports *)

MaxCardFiles == 2

\* What process_sd_card reads of the settings and of the TransferManager's config.
RunConfigs ==
    [require_confirmation : BOOLEAN, transfer_mode : TransferModes,
     fallback_to_local : BOOLEAN, delete_after_transfer : BOOLEAN]

\* The messages process_sd_card hands to update_status('error', error_message=...).
UnknownCameraMessage == "Unknown camera type or unsupported SD card format"

NoFilesMessage == "No photos or videos found on SD card"

FailedFilesMessage(failed_transfers) == ToString(failed_transfers) \o " files failed to transfer"

\* str(e) of the exception _get_transfer_mode raises, and of the OSError of a probe
\* command that cannot be started.
ConflictMessage == "NAS not available and local fallback disabled"

ProbeErrorMessage == "[Errno 2] No such file or directory: 'ping'"

\* What wait_for_confirmation can return to step 4: a posted action, or the default
\* of the timeout, whose action is 'cancel'.
ReturnedActions == {"proceed", "cancel", "none", "timeout_cancel"}

\* update_status(status, **kwargs): the status is replaced and the keyword arguments
\* are merged into the state.
UpdateStatus(new_status, message) ==
    /\ reported' = Append(reported, new_status)
    /\ error_message' = IF message = "" THEN error_message ELSE message

\* The except clause of process_sd_card.
ProcessRaised(message) ==
    /\ UpdateStatus("error", message)
    /\ returned' = "False"
    /\ opc' = "returned"

\* The entry of process_sd_card: update_status('detecting').
ProcessSdCard ==
    /\ opc = "called"
    /\ UpdateStatus("detecting", "")
    /\ opc' = "detecting"
    /\ UNCHANGED <<run_config, returned, card_detection, listed_files, run_stats, run_mode, copies>>
    /\ UNCHANGED NotProcess

\* Step 1: detect_camera returns a result or None.
DetectStep ==
    /\ opc = "detecting"
    /\ \E found \in {"match", "no_match"} :
         /\ card_detection' = found
         /\ IF found = "no_match"
            THEN /\ UpdateStatus("error", UnknownCameraMessage)
                 /\ returned' = "False"
                 /\ opc' = "returned"
            ELSE /\ opc' = "detected"
                 /\ UNCHANGED <<reported, error_message, returned>>
    /\ UNCHANGED <<run_config, listed_files, run_stats, run_mode, copies>>
    /\ UNCHANGED NotProcess

\* Steps 2 and 3: prepare_file_list, and the two checks, which only read.
PrepareStep ==
    /\ opc = "detected"
    /\ \E n \in 0..MaxCardFiles :
         /\ listed_files' = n
         /\ IF n = 0
            THEN /\ UpdateStatus("error", NoFilesMessage)
                 /\ returned' = "False"
                 /\ opc' = "returned"
            ELSE /\ opc' = "checked"
                 /\ UNCHANGED <<reported, error_message, returned>>
    /\ UNCHANGED <<run_config, card_detection, run_stats, run_mode, copies>>
    /\ UNCHANGED NotProcess

\* Step 4 up to the call of wait_for_confirmation.
RequestStep ==
    /\ opc = "checked"
    /\ IF run_config.require_confirmation
       THEN /\ UpdateStatus("confirming", "")
            /\ opc' = "waiting"
       ELSE /\ opc' = "confirmed"
            /\ UNCHANGED <<reported, error_message>>
    /\ UNCHANGED <<run_config, returned, card_detection, listed_files, run_stats, run_mode, copies>>
    /\ UNCHANGED NotProcess

\* Step 4 on the return of wait_for_confirmation.
ConfirmationStep ==
    /\ opc = "waiting"
    /\ \E a \in ReturnedActions :
         IF a # "proceed"
         THEN /\ UpdateStatus("idle", "")
              /\ returned' = "False"
              /\ opc' = "returned"
         ELSE /\ opc' = "confirmed"
              /\ UNCHANGED <<reported, error_message, returned>>
    /\ UNCHANGED <<run_config, card_detection, listed_files, run_stats, run_mode, copies>>
    /\ UNCHANGED NotProcess

\* Step 5 up to the call of transfer_files: update_status('transferring').
TransferStep ==
    /\ opc = "confirmed"
    /\ UpdateStatus("transferring", "")
    /\ opc' = "selecting"
    /\ UNCHANGED <<run_config, returned, card_detection, listed_files, run_stats, run_mode, copies>>
    /\ UNCHANGED NotProcess

\* transfer_files up to the dispatch on the mode: fresh stats and _get_transfer_mode,
\* whose exception reaches the except clause of process_sd_card.
SelectModeStep ==
    /\ opc = "selecting"
    /\ run_stats' = [NewStats EXCEPT !.total_files = listed_files]
    /\ \E probe \in ProbeOutcomes, vpn \in VpnOutcomes :
         LET m == GetTransferMode([transfer_mode |-> run_config.transfer_mode,
                                   fallback_to_local |-> run_config.fallback_to_local,
                                   preserve_timestamps |-> TRUE], probe, vpn)
         IN  /\ run_mode' = m
             /\ IF m = "raise_conflict" THEN ProcessRaised(ConflictMessage)
                ELSE IF m = "raise_probe" THEN ProcessRaised(ProbeErrorMessage)
                ELSE IF m = "blocked_vpn"
                THEN opc' = "blocked" /\ UNCHANGED <<reported, error_message, returned>>
                ELSE opc' = "copying" /\ UNCHANGED <<reported, error_message, returned>>
    /\ UNCHANGED <<run_config, card_detection, listed_files, copies>>
    /\ UNCHANGED NotProcess

\* One turn of the copy loop of _transfer_direct_to_nas or _transfer_local_first:
\* the copy verifies or fails, and _update_stats counts it.
CopyStep ==
    /\ opc = "copying"
    /\ copies < listed_files
    /\ \E success \in BOOLEAN :
         run_stats' = IF success
                      THEN [run_stats EXCEPT !.successful_transfers = @ + 1]
                      ELSE [run_stats EXCEPT !.failed_transfers = @ + 1]
    /\ copies' = copies + 1
    /\ UNCHANGED <<run_config, opc, reported, error_message, returned, card_detection,
                   listed_files, run_mode>>
    /\ UNCHANGED NotProcess

\* The end of the copy loop: nothing more in direct mode; in local-first mode
\* _sync_to_nas_async, whose probe can raise and whose copies leave the stats alone.
EndOfCopiesStep ==
    /\ opc = "copying"
    /\ copies = listed_files
    /\ IF run_mode = "direct_nas"
       THEN /\ opc' = "transferred"
            /\ UNCHANGED <<reported, error_message, returned>>
       ELSE \E probe \in ProbeOutcomes :
              IF TestNasConnectivity(probe).raised
              THEN ProcessRaised(ProbeErrorMessage)
              ELSE /\ opc' = "transferred"
                   /\ UNCHANGED <<reported, error_message, returned>>
    /\ UNCHANGED <<run_config, card_detection, listed_files, run_stats, run_mode, copies>>
    /\ UNCHANGED NotProcess

\* Steps 6 and 7 on the stats transfer_files returned: the cleanup, which changes
\* neither the stats nor the status, and the report.
ReportStep ==
    /\ opc = "transferred"
    /\ IF run_stats.failed_transfers = 0
       THEN /\ UpdateStatus("complete", "")
            /\ returned' = "True"
       ELSE /\ UpdateStatus("error", FailedFilesMessage(run_stats.failed_transfers))
            /\ returned' = "False"
    /\ opc' = "returned"
    /\ UNCHANGED <<run_config, card_detection, listed_files, run_stats, run_mode, copies>>
    /\ UNCHANGED NotProcess

\* A call of process_sd_card, with the state of the web interface as it is at start
\* or as an earlier run left it.
ProcessInit ==
    /\ run_config \in RunConfigs
    /\ opc = "called"
    /\ reported = <<>>
    /\ error_message \in {"", UnknownCameraMessage}
    /\ returned = "nothing"
    /\ card_detection = "unset"
    /\ listed_files = 0
    /\ run_stats = NewStats
    /\ run_mode = "unset"
    /\ copies = 0

ProcessNext ==
    \/ ProcessSdCard
    \/ DetectStep
    \/ PrepareStep
    \/ RequestStep
    \/ ConfirmationStep
    \/ TransferStep
    \/ SelectModeStep
    \/ CopyStep
    \/ EndOfCopiesStep
    \/ ReportStep

-----------------------------------------------------------------------------
(* Specifications *)

\* No transfer is under way.
TransferIdle ==
    /\ config = [transfer_mode |-> "auto", fallback_to_local |-> TRUE, preserve_timestamps |-> TRUE]
    /\ file_list = <<>>
    /\ srcfs = <<>>
    /\ nasfs = [p \in RelPaths |-> Absent]
    /\ localfs = [p \in RelPaths |-> Absent]
    /\ stats = NewStats
    /\ pc = "unused"
    /\ mode = "none"
    /\ idx = 0
    /\ local_transfers = <<>>
    /\ results = <<>>
    /\ probes = <<>>
    /\ deleted = {}

\* No detection is under way.
DetectIdle ==
    /\ cameras = <<>>
    /\ volume = [exists |-> FALSE, folders |-> {}]
    /\ dpc = "unused"
    /\ didx = 0
    /\ tested = <<>>
    /\ detection_results = <<>>
    /\ detected = NoDetection

\* No verification is under way.
VerifyIdle ==
    /\ vsource = Absent
    /\ vdest = Absent
    /\ vpc = "unused"
    /\ vresult = FALSE

\* No duplicate check is under way.
DuplicatesIdle ==
    /\ dup_list = <<>>
    /\ dup_fs = <<>>
    /\ dup_pc = "unused"
    /\ dup_result = EmptyDict

\* No card is being processed.
ConfirmIdle ==
    /\ require_confirmation = TRUE
    /\ timeout_seconds = 0
    /\ status = "idle"
    /\ pending_confirmation = NoConfirmation
    /\ kpc = "unused"
    /\ elapsed = 0
    /\ confirmation = NoConfirmation
    /\ submitted = {}
    /\ copied = FALSE
    /\ cleaned = FALSE
    /\ requests = 0
    /\ accepted = <<>>
    /\ pending_id = 0
    /\ returns = <<>>
    /\ answer = "none"

\* No metadata test is under way.
ExifIdle ==
    /\ exif_rules = [present |-> FALSE, confidence |-> 0]
    /\ exif_samples = <<>>
    /\ epc = "unused"
    /\ exif_returned = 0

\* No transfer is being polled.
ProgressIdle ==
    /\ ptotal = 0
    /\ wpc = "unused"
    /\ wdone = 0
    /\ pstats = NewStats
    /\ rpc = "unused"
    /\ snapshot = EmptySnapshot

\* No file list is being prepared.
FileListIdle ==
    /\ sources_config = <<>>
    /\ sd_files = {}
    /\ preserve_folder_structure = TRUE
    /\ fpc = "unused"
    /\ ftype = 0
    /\ file_sources = <<>>
    /\ prepared = <<>>

\* No pattern test is under way.
PatternsIdle ==
    /\ pattern_rules = <<>>
    /\ pattern_finds = <<>>
    /\ ppc = "unused"
    /\ pattern_returned = 0

\* No conflict check is under way.
ConflictsIdle ==
    /\ settings = <<>>
    /\ dest_files = {}
    /\ checked_list = <<>>
    /\ conflicts = <<>>
    /\ xpc = "unused"
    /\ decision = [required |-> FALSE, action |-> "none"]
    /\ import_folder = <<>>
    /\ copy_targets = {}

\* process_sd_card has not been called.
ProcessIdle ==
    /\ run_config = <<>>
    /\ opc = "unused"
    /\ reported = <<>>
    /\ error_message = ""
    /\ returned = "nothing"
    /\ card_detection = "unset"
    /\ listed_files = 0
    /\ run_stats = <<>>
    /\ run_mode = "unset"
    /\ copies = 0

\* The transfer engine.
Init == TransferInit /\ DetectIdle /\ VerifyIdle /\ DuplicatesIdle /\ ConfirmIdle /\ ExifIdle /\ ProgressIdle /\ FileListIdle /\ PatternsIdle /\ ConflictsIdle /\ ProcessIdle

Next == TransferNext

Spec == Init /\ [][Next]_vars

\* The push to the NAS of a staged batch.
InitPush == PushInit /\ DetectIdle /\ VerifyIdle /\ DuplicatesIdle /\ ConfirmIdle /\ ExifIdle /\ ProgressIdle /\ FileListIdle /\ PatternsIdle /\ ConflictsIdle /\ ProcessIdle

NextPush == PushNext

SpecPush == InitPush /\ [][NextPush]_vars

\* The detection engine.
InitDetect == DetectInit /\ TransferIdle /\ VerifyIdle /\ DuplicatesIdle /\ ConfirmIdle /\ ExifIdle /\ ProgressIdle /\ FileListIdle /\ PatternsIdle /\ ConflictsIdle /\ ProcessIdle

NextDetect == DetectNext

SpecDetect == InitDetect /\ [][NextDetect]_vars

\* verify_transfer on every pair of files.
InitVerify == VerifyInit /\ TransferIdle /\ DetectIdle /\ DuplicatesIdle /\ ConfirmIdle /\ ExifIdle /\ ProgressIdle /\ FileListIdle /\ PatternsIdle /\ ConflictsIdle /\ ProcessIdle

NextVerify == VerifyTransferCall

SpecVerify == InitVerify /\ [][NextVerify]_vars

\* check_duplicates on every list of paths.
InitDuplicates == DuplicatesInit /\ TransferIdle /\ DetectIdle /\ VerifyIdle /\ ConfirmIdle /\ ExifIdle /\ ProgressIdle /\ FileListIdle /\ PatternsIdle /\ ConflictsIdle /\ ProcessIdle

NextDuplicates == CheckDuplicatesCall

SpecDuplicates == InitDuplicates /\ [][NextDuplicates]_vars

\* _test_exif_data on every list of sample outcomes.
InitExif == ExifInit /\ TransferIdle /\ DetectIdle /\ VerifyIdle /\ DuplicatesIdle /\ ConfirmIdle /\ ProgressIdle /\ FileListIdle /\ PatternsIdle /\ ConflictsIdle /\ ProcessIdle

NextExif == TestExifDataCall

SpecExif == InitExif /\ [][NextExif]_vars

\* get_progress polled while transfer_files runs.
InitProgress == ProgressInit /\ TransferIdle /\ DetectIdle /\ VerifyIdle /\ DuplicatesIdle /\ ConfirmIdle /\ ExifIdle /\ FileListIdle /\ PatternsIdle /\ ConflictsIdle /\ ProcessIdle

NextProgress == ProgressNext

SpecProgress == InitProgress /\ [][NextProgress]_vars

\* Both threads keep being scheduled: the run of transfer_files goes on until it
\* returns or raises, and the monitoring thread wakes up from every sleep.
SpecProgressFair == InitProgress /\ [][NextProgress]_vars /\ WF_vars(RunStep) /\ WF_vars(MonitorStep)

\* The confirmation gate of process_sd_card, with the web interface's handler.
InitConfirm == ConfirmInit /\ TransferIdle /\ DetectIdle /\ VerifyIdle /\ DuplicatesIdle /\ ExifIdle /\ ProgressIdle /\ FileListIdle /\ PatternsIdle /\ ConflictsIdle /\ ProcessIdle

NextConfirm == ConfirmNext

SpecConfirm == InitConfirm /\ [][NextConfirm]_vars

\* The file list of a winning profile.
InitFileList == FileListInit /\ TransferIdle /\ DetectIdle /\ VerifyIdle /\ DuplicatesIdle /\ ConfirmIdle /\ ExifIdle /\ ProgressIdle /\ PatternsIdle /\ ConflictsIdle /\ ProcessIdle

NextFileList == FileListNext

SpecFileList == InitFileList /\ [][NextFileList]_vars

\* The transfer engine on destination roots that already hold files.
InitExisting == ExistingInit /\ DetectIdle /\ VerifyIdle /\ DuplicatesIdle /\ ConfirmIdle /\ ExifIdle /\ ProgressIdle /\ FileListIdle /\ PatternsIdle /\ ConflictsIdle /\ ProcessIdle

NextExisting == TransferNext

SpecExisting == InitExisting /\ [][NextExisting]_vars

\* _test_file_patterns on every list of rules and search outcomes.
InitPatterns == PatternsInit /\ TransferIdle /\ DetectIdle /\ VerifyIdle /\ DuplicatesIdle /\ ConfirmIdle /\ ExifIdle /\ ProgressIdle /\ FileListIdle /\ ConflictsIdle /\ ProcessIdle

NextPatterns == TestFilePatternsCall

SpecPatterns == InitPatterns /\ [][NextPatterns]_vars

\* The conflict report of process_sd_card and the transfer that follows it.
InitConflicts == ConflictsInit /\ TransferIdle /\ DetectIdle /\ VerifyIdle /\ DuplicatesIdle /\ ConfirmIdle /\ ExifIdle /\ ProgressIdle /\ FileListIdle /\ PatternsIdle /\ ProcessIdle

NextConflicts == ConflictsNext

SpecConflicts == InitConflicts /\ [][NextConflicts]_vars

\* process_sd_card from its call to its return.
InitProcess == ProcessInit /\ TransferIdle /\ DetectIdle /\ VerifyIdle /\ DuplicatesIdle /\ ConfirmIdle /\ ExifIdle /\ ProgressIdle /\ FileListIdle /\ PatternsIdle /\ ConflictsIdle

NextProcess == ProcessNext

SpecProcess == InitProcess /\ [][NextProcess]_vars

-----------------------------------------------------------------------------
(* Properties of the transfer engine *)

\* The TransferResults of the copies of the file list (not of the push to the NAS).
PrimaryResults == SelectSeq(results, LAMBDA r : r.phase = "transfer")

\* Mode selection succeeded and the loop over the file list has ended.
CopyLoopDone == mode # "none" /\ (pc # "copying" \/ idx = Len(file_list))

\* transfer_files has ended, by returning or by raising.
RunEnded == pc \in {"done", "raise_probe", "raise_conflict"}

\* Every copy of the file list made so far went to `root`, and once the loop has
\* ended there is one copy per entry, in list order.
AllCopiedTo(root) ==
    /\ \A i \in 1..Len(PrimaryResults) :
         /\ PrimaryResults[i].root = root
         /\ PrimaryResults[i].index = i
         /\ PrimaryResults[i].rel = file_list[i].rel
         /\ PrimaryResults[i].src = srcfs[file_list[i].source]
    /\ CopyLoopDone => Len(PrimaryResults) = Len(file_list)

\* C1: in 'auto' mode, once the network status is back, a reachable NAS sends every
\* file to the NAS root; an unreachable NAS with fallback_to_local sends every file
\* to the local root; an unreachable NAS without fallback raises the conflict error
\* and copies nothing.
C1_AutoModeSelection ==
    (config.transfer_mode = "auto" /\ probes # <<>> /\ pc # "blocked_vpn") =>
        /\ probes[1] = "up" => (mode = "direct_nas" /\ AllCopiedTo("nas"))
        /\ (probes[1] = "down" /\ config.fallback_to_local) =>
              (mode = "local_first" /\ AllCopiedTo("local"))
        /\ (probes[1] = "down" /\ ~config.fallback_to_local) =>
              /\ pc = "raise_conflict"
              /\ results = <<>>
              /\ \A p \in RelPaths : nasfs[p] = Absent /\ localfs[p] = Absent

\* C1 witness: an 'auto' run that found the NAS down, fell back and staged two files.
C1_Witness ==
    /\ config.transfer_mode = "auto"
    /\ probes # <<>> /\ probes[1] = "down"
    /\ pc = "done"
    /\ Len(file_list) = 2
    /\ Len(PrimaryResults) = 2
    /\ \A i \in 1..2 : PrimaryResults[i].root = "local" /\ PrimaryResults[i].success

\* The file system a TransferResult's destination lives in.
RootFs(root) == IF root = "nas" THEN nasfs ELSE localfs

\* C2: a file is recorded successful only if the copy left a destination file whose
\* content equals the source's content; the successes counted are those results.
C2_SuccessMeansIdenticalContent ==
    /\ \A i \in 1..Len(results) :
         results[i].success =>
            /\ results[i].src.kind = "ok"
            /\ results[i].dest.kind = "ok"
            /\ results[i].dest.data = results[i].src.data
    /\ results # <<>> =>
         LET r == results[Len(results)] IN r.success => RootFs(r.root)[r.rel] = r.dest
    /\ stats.successful_transfers = Len(SelectSeq(PrimaryResults, LAMBDA r : r.success))

\* C2 witness: one file verified and another, of the same size as what was written
\* in its place, failed verification.
C2_Witness ==
    /\ \E i \in 1..Len(results) : results[i].success /\ results[i].src.data # <<>>
    /\ \E j \in 1..Len(results) : results[j].verify = "mismatch" /\ results[j].src.data # <<>>

\* C3: a copy whose destination differs from the source at verification leaves no
\* destination file, fails with an error detail, and counts as failed, not successful.
C3_MismatchDeletesAndFails ==
    /\ \A i \in 1..Len(results) :
         results[i].verify = "mismatch" =>
            /\ results[i].dest = Absent
            /\ ~results[i].success
            /\ results[i].error # ""
    /\ results # <<>> =>
         LET r == results[Len(results)] IN r.verify = "mismatch" => RootFs(r.root)[r.rel] = Absent
    /\ stats.failed_transfers = Len(SelectSeq(PrimaryResults, LAMBDA r : ~r.success))
    /\ stats.successful_transfers = Len(SelectSeq(PrimaryResults, LAMBDA r : r.success))

\* C3 witness: a direct run in which the first file's write was corrupted and the
\* second file still succeeded.
C3_Witness ==
    /\ pc = "done"
    /\ mode = "direct_nas"
    /\ Len(results) = 2
    /\ results[1].verify = "mismatch"
    /\ results[2].success
    /\ stats.failed_transfers = 1
    /\ stats.successful_transfers = 1

\* C4: once mode selection has succeeded, transfer_files attempts every entry once,
\* in list order, records every verified file as successful, and returns normally.
C4_BatchNeverAborts ==
    /\ \A i \in 1..Len(PrimaryResults) :
         /\ PrimaryResults[i].index = i
         /\ PrimaryResults[i].rel = file_list[i].rel
         /\ PrimaryResults[i].verify = "match" => PrimaryResults[i].success
    /\ CopyLoopDone => Len(PrimaryResults) = Len(file_list)
    /\ (RunEnded /\ mode # "none") => pc = "done"

\* C5 as stated: after any run, for every mode and every network outcome (the run
\* returned, or found the NAS unreachable with fallback disabled and raised the
\* conflict error), successful + failed = total_files and transferred_size <= total_size.
C5_StatsAfterAnyRun ==
    pc \in {"done", "raise_conflict"} =>
        /\ stats.successful_transfers + stats.failed_transfers = stats.total_files
        /\ stats.transferred_size <= stats.total_size

\* C5 amended: after any run whose mode selection succeeded, successful + failed =
\* total_files; transferred_size <= total_size holds throughout every run.
C5_StatsAfterCopyLoop ==
    /\ CopyLoopDone => stats.successful_transfers + stats.failed_transfers = stats.total_files
    /\ stats.successful_transfers + stats.failed_transfers <= stats.total_files
    /\ stats.transferred_size <= stats.total_size

\* C5 witness: a run that returned with one file transferred and one failed.
C5_Witness ==
    /\ pc = "done"
    /\ stats.total_files = 2
    /\ stats.successful_transfers = 1
    /\ stats.failed_transfers = 1
    /\ stats.transferred_size = 1
    /\ stats.total_size = 2

\* The state PushInit describes is the state a run of local_first reaches when
\* every copy of its first loop succeeds.
StagedAsPushInit ==
    (/\ pc = "copying" /\ mode = "local_first" /\ idx = Len(file_list)
     /\ config.transfer_mode = "local_first"
     /\ \A i \in 1..Len(results) : results[i].success /\ results[i].error = "") =>
        /\ localfs = StagedLocalFs(file_list, srcfs)
        /\ results = StagedResults(file_list, srcfs)
        /\ local_transfers = [i \in 1..Len(file_list) |-> file_list[i].rel]
        /\ stats = [NewStats EXCEPT !.total_files = Len(file_list),
                                    !.successful_transfers = Len(file_list),
                                    !.total_size = TotalSize(file_list, srcfs),
                                    !.transferred_size = TotalSize(file_list, srcfs)]
        /\ nasfs = [p \in RelPaths |-> Absent]
        /\ probes = <<>>

\* The TransferResults of the push to the NAS.
PushResults == SelectSeq(results, LAMBDA r : r.phase = "sync")

\* The staging loop has ended and the push has not: _sync_to_nas_async is running.
PushRunning == CopyLoopDone /\ mode # "direct_nas" /\ pc \in {"copying", "syncing"}

\* C16: whatever happens during the push, no staged local file is deleted or
\* modified, the statistics are unchanged by the push, and transfer_files
\* returns normally.
C16_PushIsBestEffort ==
    [][PushRunning => (localfs' = localfs /\ stats' = stats /\ pc' \in {"syncing", "done"})]_vars

\* The push leaves the staged files and the statistics as they are.
PushLeavesStagedFilesAndStats ==
    [][PushRunning => (localfs' = localfs /\ stats' = stats)]_vars

\* C20: if the remote becomes unreachable during the push, after some staged files
\* have been pushed, the remaining pushes are abandoned: no push copy is attempted
\* after the one that failed on the unreachable remote.
C20_PushAbandonedWhenUnreachable ==
    \A i \in 1..Len(PushResults) :
        (/\ \E h \in 1..(i - 1) : PushResults[h].success
         /\ ~PushResults[i].success /\ PushResults[i].verify = "not_reached") =>
            Len(PushResults) = i

-----------------------------------------------------------------------------
(* Properties of the detection engine *)

\* The profile has a required folder rule whose folder is not on the volume.
RequiredMissing(profile) ==
    \E i \in 1..Len(profile.folder_structure) :
        profile.folder_structure[i].required /\ profile.folder_structure[i].path \notin volume.folders

\* The profile has two folder rules, one required and one optional, both folders
\* present, and no other rule.
RequiredAndOptionalPresent(profile) ==
    /\ profile.connection_type = "sd_card"
    /\ Len(profile.folder_structure) = 2
    /\ \E i \in 1..2 : profile.folder_structure[i].required
    /\ \E i \in 1..2 : ~profile.folder_structure[i].required
    /\ \A i \in 1..2 : profile.folder_structure[i].path \in volume.folders
    /\ profile.file_patterns = <<>>
    /\ ~profile.exif_rules.present

\* The number of volume-mounted profiles of the configuration.
VolumeProfileCount == Cardinality({i \in 1..Len(cameras) : cameras[i].connection_type # "mtp"})

\* C6: a profile with a required folder rule whose folder is absent scores exactly 0,
\* whatever the other signals match, and detect_camera never returns it.
C6_RequiredMissingScoresZero ==
    /\ \A i \in 1..Len(tested) :
         RequiredMissing(cameras[tested[i].camera_id]) => tested[i].confidence_score = 0
    /\ (dpc = "returned" /\ detected.found) => ~RequiredMissing(cameras[detected.camera_id])

\* What detect_camera returns is a result of the maximal score, the first such in
\* configuration order.
ReturnsFirstMaximum ==
    (dpc = "returned" /\ detected.found) =>
        /\ \E i \in 1..Len(tested) : Detection(tested[i]) = detected
        /\ \A i \in 1..Len(tested) :
             /\ tested[i].confidence_score <= detected.confidence_score
             /\ tested[i].confidence_score = detected.confidence_score =>
                   detected.camera_id <= tested[i].camera_id

\* C7: detect_camera returns the result of the maximal score over the volume-mounted
\* profiles, the first in configuration order among equals; with profile A requiring
\* an absent folder and profile B having one required and one optional folder
\* present and no other rules, it returns B with score 40.
C7_ReturnsMaximumAndScenario ==
    /\ ReturnsFirstMaximum
    /\ (dpc = "returned" /\ volume.exists /\ cameras[1].connection_type # "mtp"
            /\ RequiredMissing(cameras[1]) /\ RequiredAndOptionalPresent(cameras[2])) =>
          /\ detected.found
          /\ detected.camera_id = 2
          /\ detected.confidence_score = RequiredFolderScore + OptionalFolderScore

\* The scenario of C7 when profile A carries folder rules only.
ScenarioWithFolderRulesOnly ==
    (dpc = "returned" /\ volume.exists /\ cameras[1].connection_type # "mtp"
        /\ RequiredMissing(cameras[1]) /\ cameras[1].file_patterns = <<>>
        /\ RequiredAndOptionalPresent(cameras[2])) =>
          /\ detected.found
          /\ detected.camera_id = 2
          /\ detected.confidence_score = RequiredFolderScore + OptionalFolderScore

\* C8: detect_camera never returns a result of score <= 0, and it returns no
\* detection exactly when the mount path does not exist or every volume-mounted
\* profile scores 0.
C8_NoDetectionIffAllZero ==
    /\ \A i \in 1..Len(tested) : tested[i].confidence_score >= 0
    /\ dpc = "returned" =>
         /\ detected.found => detected.confidence_score > 0
         /\ volume.exists => Len(tested) = VolumeProfileCount
         /\ ~detected.found <=>
               (~volume.exists \/ \A i \in 1..Len(tested) : tested[i].confidence_score = 0)

\* C8 witness: two volume-mounted profiles, one of them with pattern and metadata
\* rules, were tested on an existing volume, all scored 0, and nothing was detected.
C8_Witness ==
    /\ dpc = "returned"
    /\ volume.exists
    /\ ~detected.found
    /\ Len(tested) = 2
    /\ cameras[1].file_patterns # <<>>
    /\ cameras[2].folder_structure # <<>>

\* The folder rules of a profile whose folder is on the volume, required or optional.
PresentRules(profile, required) ==
    {j \in 1..Len(profile.folder_structure) :
        /\ profile.folder_structure[j].required = required
        /\ profile.folder_structure[j].path \in volume.folders}

\* C13: when no required folder is missing, the folder-structure score of a profile
\* is 30 times the number of required folder rules whose folder exists plus 10
\* times the number of optional folder rules whose folder exists.
C13_FolderStructureScore ==
    \A i \in 1..Len(tested) :
        LET profile == cameras[tested[i].camera_id]
        IN  ~RequiredMissing(profile) =>
               tested[i].structure_score =
                   30 * Cardinality(PresentRules(profile, TRUE))
                       + 10 * Cardinality(PresentRules(profile, FALSE))

\* C13 witness: a profile with a required and an optional folder, both on the
\* volume, was scored 40 on its folders, and one with two optional folders, one of
\* them on the volume, was scored 10.
C13_Witness ==
    /\ Len(tested) = 2
    /\ tested[1].structure_score = 40
    /\ Cardinality(PresentRules(cameras[1], TRUE)) = 1
    /\ Cardinality(PresentRules(cameras[1], FALSE)) = 1
    /\ tested[2].structure_score = 10
    /\ Len(cameras[2].folder_structure) = 2
    /\ Cardinality(PresentRules(cameras[2], TRUE)) = 0

\* What one evaluated sample adds: half the confidence for a manufacturer match and
\* half for a model match.
SampleContribution(sample, confidence) ==
    IF sample.status = "ok"
    THEN (IF sample.make_match THEN confidence \div 2 ELSE 0)
            + (IF sample.model_match THEN confidence \div 2 ELSE 0)
    ELSE 0

\* The sum of the contributions of the first n samples.
RECURSIVE ContributionOfFirst(_, _, _)
ContributionOfFirst(n, samples, confidence) ==
    IF n = 0 \/ samples = <<>> THEN 0
    ELSE SampleContribution(Head(samples), confidence)
            + ContributionOfFirst(n - 1, Tail(samples), confidence)

\* C14: the metadata contribution never exceeds the rule's confidence; at most 3
\* samples are evaluated, each adding half the confidence (integer division) for a
\* manufacturer match and half for a model match before the cap.
C14_ExifContributionCapped ==
    epc = "returned" =>
        /\ exif_returned <= exif_rules.confidence
        /\ exif_returned >= 0
        /\ exif_rules.present =>
              LET total == ContributionOfFirst(3, exif_samples, exif_rules.confidence)
              IN  exif_returned = IF total <= exif_rules.confidence THEN total ELSE exif_rules.confidence
        /\ ~exif_rules.present => exif_returned = 0

\* C14 witness: four samples were found, the first three matched make and model and
\* add up to more than the confidence of 95, and the contribution is 95.
C14_Witness ==
    /\ epc = "returned"
    /\ exif_rules.present /\ exif_rules.confidence = 95
    /\ Len(exif_samples) = 4
    /\ \A i \in 1..3 : exif_samples[i].status = "ok" /\ exif_samples[i].make_match /\ exif_samples[i].model_match
    /\ exif_returned = 95

\* The fourth sample is not evaluated: three unusable samples and a matching fourth
\* give 0.
FourthSampleIgnored ==
    (/\ epc = "returned"
     /\ Len(exif_samples) = 4
     /\ \A i \in 1..3 : exif_samples[i].status = "skip") => exif_returned = 0

-----------------------------------------------------------------------------
(* Properties of verify_transfer *)

\* C9: verify_transfer returns false when dest does not exist or a file cannot be
\* read, and otherwise true exactly when the two contents are identical.
C9_VerifyIffIdentical ==
    /\ vpc \in {"idle", "returned"}
    /\ vpc = "returned" =>
         /\ (vdest.kind # "ok" \/ vsource.kind # "ok") => ~vresult
         /\ (vdest.kind = "ok" /\ vsource.kind = "ok") => (vresult <=> vsource.data = vdest.data)

\* C9 witness: two readable files of the same size that differ in their last byte
\* only were compared, and the answer was false.
C9_Witness ==
    /\ vpc = "returned"
    /\ vsource.kind = "ok" /\ vdest.kind = "ok"
    /\ Len(vsource.data) = 2 /\ Len(vdest.data) = 2
    /\ vsource.data[1] = vdest.data[1]
    /\ vsource.data[2] # vdest.data[2]
    /\ ~vresult

-----------------------------------------------------------------------------
(* Properties of check_duplicates *)

\* The paths of a group, as a set.
PathsOf(group) == {group[i] : i \in 1..Len(group)}

\* The paths of the input that share the digest of path p.
SameDigest(p) ==
    {q \in PathsOf(dup_list) :
        /\ CalculateChecksum(dup_fs[q]).ok
        /\ CalculateChecksum(dup_fs[p]).ok
        /\ dup_fs[q].data = dup_fs[p].data}

\* C10: every group holds at least 2 paths, all of the same digest; a path whose
\* digest no other input path shares is in no group; for 3 files of which the
\* first and third are identical and the second differs, the result is the one
\* group of files 1 and 3.
C10_GroupsOfTwoOrMore ==
    dup_pc = "returned" =>
        /\ \A h \in DOMAIN dup_result :
             /\ Cardinality(PathsOf(dup_result[h])) >= 2
             /\ \A p \in PathsOf(dup_result[h]) : CalculateChecksum(dup_fs[p]) = [ok |-> TRUE, sum |-> h]
        /\ \A p \in PathsOf(dup_list) :
             SameDigest(p) \subseteq {p} => \A h \in DOMAIN dup_result : p \notin PathsOf(dup_result[h])
        /\ (/\ dup_list = <<"p1", "p2", "p3">>
            /\ \A p \in DupPaths : dup_fs[p].kind = "ok"
            /\ dup_fs["p1"].data = dup_fs["p3"].data
            /\ dup_fs["p1"].data # dup_fs["p2"].data) =>
              /\ Cardinality(DOMAIN dup_result) = 1
              /\ \A h \in DOMAIN dup_result : dup_result[h] = <<"p1", "p3">>

\* C10 holds of every input list that names no path twice.
GroupsOfTwoOrMoreForDistinctPaths ==
    Cardinality(PathsOf(dup_list)) = Len(dup_list) => C10_GroupsOfTwoOrMore

\* The input list without the paths whose digest cannot be computed.
ReadablePaths == SelectSeq(dup_list, LAMBDA p : CalculateChecksum(dup_fs[p]).ok)

\* C31: for every digest that two or more input paths with a computable digest
\* share, the result has one group holding exactly those paths; a path whose digest
\* computation fails is in no group, and neither aborts the check nor changes the
\* grouping of the other paths.
C31_CompleteAndTolerant ==
    dup_pc = "returned" =>
        /\ \A p \in PathsOf(ReadablePaths) :
               Cardinality(SameDigest(p)) >= 2 =>
                   /\ CalculateChecksum(dup_fs[p]).sum \in DOMAIN dup_result
                   /\ PathsOf(dup_result[CalculateChecksum(dup_fs[p]).sum]) = SameDigest(p)
        /\ \A p \in PathsOf(dup_list) :
               ~CalculateChecksum(dup_fs[p]).ok => \A h \in DOMAIN dup_result : p \notin PathsOf(dup_result[h])
        /\ dup_result = CheckDuplicates(ReadablePaths, dup_fs)

\* Two identical files with a file that cannot be read listed between them.
C31_Witness ==
    /\ dup_pc = "returned"
    /\ dup_list = <<"p1", "p2", "p3">>
    /\ dup_fs["p2"].kind = "unreadable"
    /\ dup_fs["p1"].kind = "ok" /\ dup_fs["p3"].kind = "ok"
    /\ dup_fs["p1"].data = dup_fs["p3"].data
    /\ Cardinality(DOMAIN dup_result) = 1
    /\ \A h \in DOMAIN dup_result : dup_result[h] = <<"p1", "p3">>

-----------------------------------------------------------------------------
(* Properties of the confirmation gate *)

\* C11: with confirmation required, transfer_files is called only after
\* wait_for_confirmation returned a posted decision whose action is 'proceed'; if
\* nothing is posted in time, wait_for_confirmation returns 'cancel' and the run
\* ends having copied and deleted nothing.
C11_ConfirmationGate ==
    /\ (require_confirmation /\ (copied \/ kpc = "transferring")) =>
          /\ confirmation = PostedConfirmation("proceed")
          /\ "proceed" \in submitted
    /\ kpc = "cancelled" => (~copied /\ ~cleaned)
    /\ cleaned => copied
    /\ (require_confirmation /\ submitted = {} /\ kpc \in {"decided", "cancelled", "transferring", "finished"}) =>
          /\ confirmation = TimeoutConfirmation
          /\ kpc \in {"decided", "cancelled"}
          /\ ~copied /\ ~cleaned

\* C11 witness: confirmation was required, nothing was posted before the time was
\* up, and the run was cancelled.
C11_Witness ==
    /\ require_confirmation
    /\ timeout_seconds > 0
    /\ elapsed = timeout_seconds
    /\ submitted = {}
    /\ kpc = "cancelled"
    /\ confirmation.timeout
    /\ status = "idle"

\* The ids of the decisions the calls of wait_for_confirmation returned.
ReturnedDecisions == {i \in 1..Len(returns) : returns[i].id # 0}

\* C33: confirm_transfer accepts a decision only while the status is 'confirming';
\* each wait_for_confirmation returns the timeout default or a decision submitted
\* after its own request_confirmation, never one submitted for an earlier request;
\* and each submitted decision is consumed at most once.
C33_DecisionsBelongToTheirRequest ==
    /\ \A k \in 1..Len(accepted) : accepted[k].status = "confirming" /\ accepted[k].request >= 1
    /\ \A i \in ReturnedDecisions :
          /\ returns[i].id \in 1..Len(accepted)
          /\ accepted[returns[i].id].request = returns[i].request
    /\ \A i \in ReturnedDecisions : \A j \in ReturnedDecisions :
          returns[i].id = returns[j].id => i = j
    /\ \A i \in 1..Len(returns) : \A j \in 1..Len(returns) : i < j => returns[i].request < returns[j].request
    /\ (kpc = "decided" /\ returns # <<>>) =>
          confirmation = (IF returns[Len(returns)].id = 0 THEN TimeoutConfirmation
                          ELSE PostedConfirmation(accepted[returns[Len(returns)].id].action))

\* A decision stored right after the first wait timed out, a second request, and a
\* second wait that returned the decision submitted for it.
C33_Witness ==
    /\ Len(returns) = 2
    /\ returns[1] = [request |-> 1, id |-> 0]
    /\ Len(accepted) = 2
    /\ accepted[1].request = 1
    /\ accepted[1].action = "proceed"
    /\ accepted[2].request = 2
    /\ accepted[2].action = "cancel"
    /\ returns[2] = [request |-> 2, id |-> 2]
    /\ kpc = "cancelled"

-----------------------------------------------------------------------------
(* Properties of process_sd_card *)

\* The place of a status in the order of a run; 'complete', 'error' and 'idle' end it.
StatusRank(s) ==
    CASE s = "detecting" -> 1
      [] s = "confirming" -> 2
      [] s = "transferring" -> 3
      [] OTHER -> 4

LastStatus == reported[Len(reported)]

\* The statuses come in the order detecting, confirming (exactly when confirmation
\* is required), transferring, then one terminal status.
StatusOrder ==
    /\ reported # <<>> => reported[1] = "detecting"
    /\ \A i \in 1..Len(reported) : \A j \in 1..Len(reported) :
          i < j => StatusRank(reported[i]) < StatusRank(reported[j])
    /\ \A i \in 1..Len(reported) :
          reported[i] = "transferring" =>
              (run_config.require_confirmation <=> (i > 1 /\ reported[i - 1] = "confirming"))
    /\ \A i \in 1..Len(reported) : reported[i] = "confirming" => run_config.require_confirmation
    /\ (opc = "returned") <=> (reported # <<>> /\ StatusRank(LastStatus) = 4)

\* 'transferring' is reported only after a match with a non-empty file list.
TransferringOnlyAfterMatch ==
    (\E i \in 1..Len(reported) : reported[i] = "transferring") =>
        (card_detection = "match" /\ listed_files > 0)

\* The batch was gone through and no copy failed.
TransferEndedWithoutFailures ==
    /\ \E i \in 1..Len(reported) : reported[i] = "transferring"
    /\ run_mode \in {"direct_nas", "local_first"}
    /\ copies = listed_files
    /\ run_stats.failed_transfers = 0

\* NoMatch, a configuration conflict and a failed file end in 'error' with a reason.
FailuresEndInError ==
    (opc = "returned" /\ (\/ card_detection = "no_match"
                          \/ run_mode = "raise_conflict"
                          \/ run_stats # <<>> /\ run_stats.failed_transfers > 0)) =>
        (LastStatus = "error" /\ error_message # "" /\ returned = "False")

\* C32: the reported status follows the order detecting, confirming (when required),
\* transferring, terminal; 'transferring' is reported only after a match with a
\* non-empty file list; the run ends 'complete' and returns True exactly when the
\* transfer ended with failed_transfers = 0; NoMatch, a configuration conflict and
\* any failed file end in 'error' with a non-empty reason.
C32_StatusOrderAndOutcome ==
    /\ StatusOrder
    /\ TransferringOnlyAfterMatch
    /\ opc = "returned" =>
          /\ (LastStatus = "complete") <=> TransferEndedWithoutFailures
          /\ (returned = "True") <=> (LastStatus = "complete")
    /\ FailuresEndInError

\* As C32, with 'complete' tied to the stats transfer_files returned to step 7.
StatusFollowsReturnedStats ==
    /\ StatusOrder
    /\ TransferringOnlyAfterMatch
    /\ opc = "returned" =>
          /\ (LastStatus = "complete") <=>
                (TransferEndedWithoutFailures /\ error_message # ProbeErrorMessage)
          /\ (returned = "True") <=> (LastStatus = "complete")
    /\ FailuresEndInError

\* Every file staged without a failure, and the run reported as an error.
StagedRunReportedAsError ==
    /\ opc = "returned"
    /\ run_mode = "local_first"
    /\ copies = listed_files
    /\ run_stats.successful_transfers = listed_files
    /\ run_stats.failed_transfers = 0
    /\ reported = <<"detecting", "confirming", "transferring", "error">>
    /\ error_message = ProbeErrorMessage
    /\ returned = "False"

-----------------------------------------------------------------------------
(* Properties of the network probes *)

\* C12: the probes fail closed: no outcome of the NAS probe, the command failing to
\* start included, raises to the caller, and transfer_files never ends with a probe
\* error, in mode selection or later.
C12_ProbesFailClosed ==
    /\ \A i \in 1..Len(probes) : ~TestNasConnectivity(probes[i]).raised
    /\ pc # "raise_probe"

\* Whatever it is given, the VPN check raises nothing: it answers false for every
\* outcome but return code 0, when it answers.
VpnCheckNeverRaises ==
    \A vpn \in VpnOutcomes : CheckVpnStatus(vpn).returned => (CheckVpnStatus(vpn).value <=> vpn = "active")

\* C19: no operation suspends indefinitely: every external command is run with a
\* timeout, so the mode selection of transfer_files never waits on a command that
\* does not return.
C19_ModeSelectionCompletes == pc # "blocked_vpn"

-----------------------------------------------------------------------------
(* Properties of get_progress *)

\* C15: every snapshot get_progress returns while transfer_files runs is the stats
\* of one instant: in it completed_files = successful_transfers + failed_transfers
\* and completed_files <= total_files; get_progress never modifies the stats.
C15_SnapshotIsConsistent ==
    rpc = "returned" =>
        /\ snapshot.completed_files = snapshot.successful_transfers + snapshot.failed_transfers
        /\ snapshot.completed_files <= snapshot.total_files

\* get_progress only reads: no step of it changes the stats.
GetProgressOnlyReads == [][rpc' # rpc => pstats' = pstats]_vars

\* C21: the monitoring thread terminates after every transfer run has ended, a
\* run that returned its stats and a run aborted by the configuration conflict alike.
C21_MonitorTerminates == (wpc \in {"done", "raised"}) ~> (rpc = "stopped")

\* After a run that returned its stats the monitoring thread does stop.
MonitorStopsAfterReturnedRun == (wpc = "done") ~> (rpc = "stopped")

\* After a run aborted by mode selection no snapshot shows every file completed.
AbortedRunNeverLooksComplete ==
    (wpc = "raised" /\ rpc = "returned" /\ snapshot.total_files = ptotal) => snapshot.completed_files < snapshot.total_files

-----------------------------------------------------------------------------
(* Properties of the per-file copy *)

\* C18: at the end of every copy that reports failure, whatever the cause, a file
\* exists at the destination path only if its content equals the source's content.
C18_NoUnverifiedFileLeft ==
    \A i \in 1..Len(results) :
        ~results[i].success =>
            \/ results[i].dest = Absent
            \/ /\ results[i].dest.kind = "ok"
               /\ results[i].src.kind = "ok"
               /\ results[i].dest.data = results[i].src.data

\* A copy that fails verification leaves nothing at the destination path.
MismatchLeavesNothing ==
    \A i \in 1..Len(results) : results[i].verify = "mismatch" => results[i].dest = Absent

-----------------------------------------------------------------------------
(* Properties of the cleanup of the card *)

\* The file the copy of entry i left at its destination, under one of the roots,
\* holds the content of the entry's source.
HeldAtDestination(i) ==
    LET source == srcfs[file_list[i].source]
        rel == file_list[i].rel
    IN  \/ nasfs[rel].kind = "ok" /\ nasfs[rel].data = source.data
        \/ localfs[rel].kind = "ok" /\ localfs[rel].data = source.data

\* C17: a source file is deleted from the card only if a destination file, local
\* or NAS, holds content identical to it at that moment, for every file list, also
\* one whose entries share a destination path; and nothing is deleted when a file
\* of the batch failed.
C17_DeleteOnlyWhatIsHeld ==
    /\ \A s \in deleted : \E i \in 1..Len(file_list) : file_list[i].source = s /\ HeldAtDestination(i)
    /\ stats.failed_transfers > 0 => deleted = {}

\* Nothing is deleted from the card when a file of the batch failed, or when no
\* file was transferred.
NoCleanupAfterFailure ==
    (stats.failed_transfers > 0 \/ stats.successful_transfers = 0) => deleted = {}

\* When the entries of the list have distinct destination paths, every deleted
\* source is held at its destination.
DeleteOnlyWhatIsHeldForDistinctPaths ==
    (\A i, j \in 1..Len(file_list) : file_list[i].rel = file_list[j].rel => i = j) =>
        C17_DeleteOnlyWhatIsHeld

-----------------------------------------------------------------------------
(* Properties of the file list *)

\* C22: within one prepared batch, distinct source files are mapped to distinct
\* destination-relative paths, with preserve_folder_structure enabled or disabled.
C22_DistinctDestinations ==
    fpc = "returned" =>
        \A i \in 1..Len(prepared) : \A j \in 1..Len(prepared) :
            prepared[i].source # prepared[j].source => prepared[i].rel # prepared[j].rel

\* With preserve_folder_structure enabled distinct sources do get distinct paths.
DistinctDestinationsWhenPreserved ==
    (fpc = "returned" /\ preserve_folder_structure) =>
        \A i \in 1..Len(prepared) : \A j \in 1..Len(prepared) :
            prepared[i].source # prepared[j].source => prepared[i].rel # prepared[j].rel

\* C23: the file list of a winning profile is deduplicated and sorted: each source
\* path appears at most once and the entries are in the order of their paths.
C23_FileListDeduplicatedAndSorted ==
    fpc = "returned" =>
        \A i \in 1..Len(prepared) : \A j \in 1..Len(prepared) :
            i < j => PathRank(prepared[i].source) < PathRank(prepared[j].source)

\* The files of one source rule are deduplicated and sorted.
OneRuleDeduplicatedAndSorted ==
    (fpc = "returned" /\ Len(sources_config["photos"]) + Len(sources_config["videos"]) <= 1) =>
        \A i \in 1..Len(prepared) : \A j \in 1..Len(prepared) :
            i < j => PathRank(prepared[i].source) < PathRank(prepared[j].source)

\* C24: prepare_file_list includes no entry whose source is not under the volume
\* root, and no destination-relative path has a '..' component.
C24_OnlyFilesUnderTheRoot ==
    fpc = "returned" =>
        \A i \in 1..Len(prepared) :
            /\ IsPrefix(SdCardPath, prepared[i].source)
            /\ \A k \in 1..Len(prepared[i].rel) : prepared[i].rel[k] # ".."

-----------------------------------------------------------------------------
(* Properties of a transfer onto existing files *)

\* The first copy of the run is made and fails.
FirstCopyFails ==
    /\ pc = "copying"
    /\ idx = 0
    /\ Len(results') = 1
    /\ ~results'[1].success

\* C25: when the transfer of an entry fails, by a copy error or a verification
\* mismatch, a file already present at its destination before the run is left unchanged.
C25_FailedTransferKeepsExistingFile ==
    [][FirstCopyFails =>
          \A p \in RelPaths :
              /\ nasfs[p].kind # "missing" => nasfs'[p] = nasfs[p]
              /\ localfs[p].kind # "missing" => localfs'[p] = localfs[p]]_vars

\* A failed transfer changes no destination path but its own.
FailedTransferKeepsOtherPaths ==
    [][FirstCopyFails =>
          \A p \in RelPaths :
              p # file_list[1].rel => (nasfs'[p] = nasfs[p] /\ localfs'[p] = localfs[p])]_vars

-----------------------------------------------------------------------------
(* Properties of _test_file_patterns *)

\* The search of rule i found at least one file.
PatternMatched(i) == pattern_finds[i].status = "ok" /\ pattern_finds[i].count > 0

\* C26: a pattern rule of confidence C with n >= 1 matching files contributes C
\* plus a bonus that is positive when more than one file matches and never above
\* a fixed cap; a rule with no match or whose search times out contributes 0.
C26_PatternContribution ==
    (ppc = "returned" /\ Len(pattern_rules) = 1) =>
        IF PatternMatched(1)
        THEN LET bonus == pattern_returned - pattern_rules[1].confidence
             IN  /\ bonus >= 0
                 /\ pattern_finds[1].count > 1 => bonus > 0
                 /\ bonus <= MaxMatches * PatternBonusPerFile
        ELSE pattern_returned = 0

RECURSIVE MatchedConfidence(_)
MatchedConfidence(i) ==
    IF i = 0 THEN 0
    ELSE MatchedConfidence(i - 1) + (IF PatternMatched(i) THEN pattern_rules[i].confidence ELSE 0)

\* What is returned: the confidence of every rule that matched, and no bonus.
PatternScoreIsConfidenceOfMatchedRules ==
    ppc = "returned" => pattern_returned = MatchedConfidence(Len(pattern_rules))

-----------------------------------------------------------------------------
(* Properties of the stats of a run *)

\* A step of the loop of _transfer_direct_to_nas or of the first loop of
\* _transfer_local_first: one file is copied and _update_stats is called.
FileProcessed == pc = "copying" /\ idx < Len(file_list) /\ idx' = idx + 1

\* The result of the file of that step.
LastResult == results'[Len(results')]

\* C27: the stats are updated once after every file and before the next copy
\* begins: each processed file adds 1 to exactly one of successful_transfers and
\* failed_transfers; transferred_size grows by the size of the source if the file
\* succeeded and not at all if it failed; no counter ever decreases during the run.
C27_StatsUpdatedPerFile ==
    [][/\ FileProcessed =>
            /\ Len(results') = Len(results) + 1
            /\ stats'.successful_transfers + stats'.failed_transfers = idx'
            /\ IF LastResult.success
               THEN /\ stats'.successful_transfers = stats.successful_transfers + 1
                    /\ stats'.failed_transfers = stats.failed_transfers
                    /\ stats'.transferred_size = stats.transferred_size + Len(LastResult.src.data)
               ELSE /\ stats'.successful_transfers = stats.successful_transfers
                    /\ stats'.failed_transfers = stats.failed_transfers + 1
                    /\ stats'.transferred_size = stats.transferred_size
       /\ pc # "idle" =>
            \A k \in DOMAIN stats : stats'[k] >= stats[k]]_vars

\* A run in which a file failed after a file of one byte or more had succeeded.
C27_Witness ==
    /\ pc = "done"
    /\ Len(file_list) = 2
    /\ results[1].phase = "transfer" /\ results[1].success /\ Len(results[1].src.data) > 0
    /\ results[2].phase = "transfer" /\ ~results[2].success
    /\ stats.successful_transfers = 1
    /\ stats.failed_transfers = 1
    /\ stats.transferred_size = Len(results[1].src.data)

-----------------------------------------------------------------------------
(* Properties of a pinned transfer mode *)

\* The results of the copies of the file list itself (not of the push).
TransferResults == {i \in 1..Len(results) : results[i].phase = "transfer"}

\* C28: a transfer mode pinned by the configuration is used without consulting the
\* probe for mode selection: pinned direct copies every file to the NAS root, pinned
\* staged copies every file to the local root, whatever the probe would say, and
\* the mode chosen at the start of a run is used for every file of the run.
C28_PinnedModeIsUsed ==
    /\ (config.transfer_mode # "auto" /\ pc \notin {"idle", "unused"}) =>
          /\ mode = config.transfer_mode
          /\ pc = "copying" => probes = <<>>
          /\ pc # "copying" => Cardinality(TransferResults) = Len(file_list)
    /\ config.transfer_mode = "direct_nas" => probes = <<>>
    /\ \A i \in TransferResults :
          results[i].root = (IF mode = "direct_nas" THEN "nas" ELSE "local")

\* A run pinned to the staged mode that copied two files to the local root and
\* then found the NAS reachable.
C28_Witness ==
    /\ config.transfer_mode = "local_first"
    /\ pc = "done"
    /\ probes = <<"up">>
    /\ Len(file_list) = 2
    /\ results[1].phase = "transfer" /\ results[1].root = "local" /\ results[1].success
    /\ results[2].phase = "transfer" /\ results[2].root = "local" /\ results[2].success

\* A run pinned to the direct mode whose copies to the NAS root all failed.
PinnedDirectWithNasOutOfReach ==
    /\ config.transfer_mode = "direct_nas"
    /\ pc = "done"
    /\ Len(file_list) = 2
    /\ \A i \in 1..2 : results[i].root = "nas" /\ results[i].error = ErrException /\ ~results[i].success

-----------------------------------------------------------------------------
(* Properties of the conflict report *)

\* A file exists for the entry under one of the roots check_existing_files is
\* configured with, in the %Y%m%d folder of the day.
ExistsUnderCheckedRoots(rel) ==
    \E f \in dest_files :
        /\ f.rel = rel
        /\ f.date = <<Today.year, Today.month, Today.day>>
        /\ f.root \in {GetOr(settings.duplicate_handling.local_storage_path, DefaultLocalPath),
                       GetOr(settings.duplicate_handling.nas_storage_path, DefaultNasPath)}

\* C29: check_existing_files returns exactly the destination-relative paths of the
\* entries for which a file exists under its local root or its NAS root; it
\* changes no file; and the run is stopped only by the answer to a required
\* confirmation, never by the conflict list.
C29_ConflictsAreExactAndAdvisory ==
    [][/\ (xpc = "idle" /\ xpc' = "checked") =>
             /\ conflicts' = SelectSeq(checked_list, ExistsUnderCheckedRoots)
             /\ dest_files' = dest_files
       /\ xpc = "checked" =>
             xpc' = (IF decision'.required /\ decision'.action # "proceed" THEN "cancelled" ELSE "transferring")]_vars

\* A transfer that went on, without a confirmation, after a conflict was reported.
C29_Witness ==
    /\ xpc = "transferred"
    /\ conflicts # <<>>
    /\ Len(conflicts) < Len(checked_list)
    /\ ~decision.required

\* check_existing_files leaves every file as it is.
CheckExistingFilesOnlyReads == [][xpc = "idle" => dest_files' = dest_files]_vars

\* C30: the conflict list shown for confirmation holds the destination-relative path
\* of every file whose actual transfer destination already exists.
C30_ConflictsCoverTransferDestinations ==
    xpc = "transferred" =>
        \A w \in copy_targets :
            w \in dest_files => \E i \in 1..Len(conflicts) : conflicts[i] = w.rel

\* With the storage roots left to their defaults and the default date format the
\* conflict list does cover the destinations.
ConflictsCoverDefaultDestinations ==
    (/\ xpc = "transferred"
     /\ settings.date_format = "%Y%m%d"
     /\ settings.transfer_settings = settings.duplicate_handling) =>
        \A w \in copy_targets :
            w \in dest_files => \E i \in 1..Len(conflicts) : conflicts[i] = w.rel

====
